---- MODULE Spec2Model ----
(***************************************************************************)
(* Model of the automation-configuration validation helpers                *)
(* (tests/helpers/automation_validation.py).                               *)
(*                                                                         *)
(* Python values are records of one uniform shape, so that any two values  *)
(* can be compared:                                                        *)
(*   t    : the value's type name, as type(x).__name__ gives it            *)
(*   n    : the number of an int / float / bool (True is 1, False is 0)    *)
(*   s    : the characters of a str, one per element                       *)
(*   list : the elements of a list, in order                               *)
(*   dict : the entries of a dict, [k, val] records in insertion order     *)
(* An error string is the sequence of the pieces it is concatenated from;  *)
(* the characters of an interpolated str value are appended one by one.    *)
(* A call's outcome is a record [exc, errors]: exc is "none" when the call *)
(* returned and names the exception when it raised.                        *)
(* The module-level sets VALID_TRIGGER_PLATFORMS, VALID_CONDITION_TYPES    *)
(* and VALID_MODES are mutable globals of the process: they are state.     *)
(***************************************************************************)
EXTENDS Integers, Sequences, FiniteSets, TLC

VARIABLES
    under_test,    \* the function this run of the harness exercises
    time_str,      \* argument handed to _is_valid_time_string
    time_result,   \* "pending" before the call, then "True" / "False"
    sec_arg,       \* argument handed to validate_triggers / _conditions / _actions
    sec_depth,     \* number of 'parallel' levels wrapped around the action list
    sec_ret,       \* outcome of that call (NoCall before it)
    config,        \* document handed to validate_automation_config
    result,        \* outcome of the last validate_automation_config call (NoResult before it)
    history,       \* per scenario document: outcome of its earliest call in this process
    calls,         \* per scenario document: number of calls made on it
    modes_order,   \* iteration order of the set VALID_MODES in this process
    svc_domain,    \* arguments handed to validate_service_data
    svc_service,
    svc_data,
    svc_ret,       \* outcome of the validate_service_data call (NoResult before it)
    tables,        \* the module-level taxonomy sets, by name
    asserted,      \* outcome of the assert_valid_automation call (NoAssert before it)
    summary,       \* outcome of the get_automation_summary call (NoSummary before it)
    script         \* the validate_automations script: its files, loop position, counters, exit

vars == <<under_test, time_str, time_result, sec_arg, sec_depth, sec_ret, config, result,
          history, calls, modes_order, svc_domain, svc_service, svc_data, svc_ret,
          tables, asserted, summary, script>>

----------------------------------------------------------------------------
(* Bounds of the exploration *)

MaxTimeLen == 5     \* longest time string typed character by character
MaxItems == 2       \* longest trigger / condition / action list
MaxDepth == 3       \* deepest 'parallel' nesting
MaxCalls == 2       \* calls made on one scenario document
MaxDataKeys == 2    \* keys of a service-data mapping
MaxFiles == 3       \* YAML files the script finds

----------------------------------------------------------------------------
(* Python values *)

PyNone == [t |-> "NoneType", n |-> 0, s |-> <<>>, list |-> <<>>, dict |-> <<>>]

PyBool(b) == [t |-> "bool", n |-> IF b THEN 1 ELSE 0, s |-> <<>>, list |-> <<>>, dict |-> <<>>]

PyInt(i) == [t |-> "int", n |-> i, s |-> <<>>, list |-> <<>>, dict |-> <<>>]

\* a float with an integral value
PyFloat(i) == [t |-> "float", n |-> i, s |-> <<>>, list |-> <<>>, dict |-> <<>>]

PyStr(chars) == [t |-> "str", n |-> 0, s |-> chars, list |-> <<>>, dict |-> <<>>]

PyList(elems) == [t |-> "list", n |-> 0, s |-> <<>>, list |-> elems, dict |-> <<>>]

PyDict(entries) == [t |-> "dict", n |-> 0, s |-> <<>>, list |-> <<>>, dict |-> entries]

KV(key, value) == [k |-> key, val |-> value]

\* key in d, for a dict d
HasKey(d, key) == \E i \in 1..Len(d.dict) : d.dict[i].k = key

\* d[key], for a dict d that has the key
GetKey(d, key) == d.dict[CHOOSE i \in 1..Len(d.dict) : d.dict[i].k = key].val

\* d[key] = value: an existing key keeps its position, a new key goes last
SetKey(d, key, value) ==
    IF HasKey(d, key)
    THEN PyDict([i \in 1..Len(d.dict) |->
                    IF d.dict[i].k = key THEN KV(key, value) ELSE d.dict[i]])
    ELSE PyDict(Append(d.dict, KV(key, value)))

\* the items of parts from number from (one-based) on, sep between them
RECURSIVE JoinFrom(_, _, _)
JoinFrom(sep, parts, from) ==
    IF from > Len(parts) THEN <<>>
    ELSE IF from = Len(parts) THEN parts[from]
    ELSE parts[from] \o sep \o JoinFrom(sep, parts, from + 1)

\* str.join(sep, parts) on pieces
Join(sep, parts) == JoinFrom(sep, parts, 1)

\* repr(x)
RECURSIVE PyRepr(_)
PyRepr(x) ==
    CASE x.t = "NoneType" -> <<"None">>
      [] x.t = "bool" -> <<IF x.n = 1 THEN "True" ELSE "False">>
      [] x.t = "int" -> <<ToString(x.n)>>
      [] x.t = "float" -> <<ToString(x.n), ".0">>
      [] x.t = "str" -> <<"'">> \o x.s \o <<"'">>
      [] x.t = "list" ->
            <<"[">> \o Join(<<", ">>, [i \in 1..Len(x.list) |-> PyRepr(x.list[i])]) \o <<"]">>
      [] x.t = "dict" ->
            <<"{">> \o Join(<<", ">>, [i \in 1..Len(x.dict) |->
                        <<"'", x.dict[i].k, "'", ": ">> \o PyRepr(x.dict[i].val)]) \o <<"}">>

\* str(x), what an f-string interpolates
PyFormat(x) == IF x.t = "str" THEN x.s ELSE PyRepr(x)

\* hash(x) succeeds: lists and dicts are unhashable
Hashable(x) == x.t \notin {"list", "dict"}

----------------------------------------------------------------------------
(* Outcomes *)

NoCall == [exc |-> "pending", errors |-> <<>>]

Returned(errs) == [exc |-> "none", errors |-> errs]

Raised(name) == [exc |-> name, errors |-> <<>>]

\* outcomes of the calls that return (is_valid, errors)
NoResult == [exc |-> "pending", is_valid |-> FALSE, errors |-> <<>>]

RaisedResult(name) == [exc |-> name, is_valid |-> FALSE, errors |-> <<>>]

\* outcomes of assert_valid_automation: the message of the exception raised
NoAssert == [exc |-> "pending", message |-> <<>>]

\* outcomes of get_automation_summary: the string returned
NoSummary == [exc |-> "pending", text |-> <<>>]

\* the validate_automations script before main runs: the files found, the
\* place in main, the files the loop has done, the three counters, the exit
\* status of the process
NotStarted ==
    [yaml_files |-> <<>>, pc |-> "collect", processed |-> 0,
     valid_count |-> 0, invalid_count |-> 0, skipped_count |-> 0, exit_status |-> "running"]

\* two statement blocks in sequence: the first exception ends the call
Then(a, b) ==
    IF a.exc # "none" THEN a
    ELSE IF b.exc # "none" THEN b
    ELSE Returned(a.errors \o b.errors)

----------------------------------------------------------------------------
(* _is_valid_time_string *)

DigitChars == <<"0", "1", "2", "3", "4", "5", "6", "7", "8", "9">>

IsDigit(c) == \E i \in 1..10 : DigitChars[i] = c

DigitValue(c) == (CHOOSE i \in 1..10 : DigitChars[i] = c) - 1

\* str.split(sep) for a one-character separator
RECURSIVE Split(_, _)
Split(chars, sep) ==
    IF \A i \in 1..Len(chars) : chars[i] # sep THEN <<chars>>
    ELSE LET p == CHOOSE i \in 1..Len(chars) :
                    chars[i] = sep /\ \A j \in 1..(i - 1) : chars[j] # sep
         IN  <<SubSeq(chars, 1, p - 1)>> \o Split(SubSeq(chars, p + 1, Len(chars)), sep)

\* str.strip()
Strip(chars) ==
    LET keep == {i \in 1..Len(chars) : chars[i] # " "}
    IN  IF keep = {} THEN <<>>
        ELSE SubSeq(chars, CHOOSE i \in keep : \A j \in keep : i <= j,
                           CHOOSE i \in keep : \A j \in keep : i >= j)

RECURSIVE DecimalValue(_)
DecimalValue(chars) ==
    IF Len(chars) = 0 THEN 0
    ELSE LET last == chars[Len(chars)]
             front == SubSeq(chars, 1, Len(chars) - 1)
         IN  IF last = "_" THEN DecimalValue(front)
             ELSE 10 * DecimalValue(front) + DigitValue(last)

\* int(text) for a str: surrounding whitespace is stripped, one sign is
\* allowed, digits may be grouped by single underscores.  ok = FALSE is
\* ValueError.
int(chars) ==
    LET body == Strip(chars)
        signed == Len(body) > 0 /\ body[1] \in {"+", "-"}
        digits == IF signed THEN Tail(body) ELSE body
        wellFormed ==
            /\ Len(digits) > 0
            /\ \A i \in 1..Len(digits) : IsDigit(digits[i]) \/ digits[i] = "_"
            /\ digits[1] # "_"
            /\ digits[Len(digits)] # "_"
            /\ \A i \in 1..(Len(digits) - 1) : ~(digits[i] = "_" /\ digits[i + 1] = "_")
    IN  IF ~wellFormed THEN [ok |-> FALSE, value |-> 0]
        ELSE [ok |-> TRUE,
              value |-> IF signed /\ body[1] = "-" THEN 0 - DecimalValue(digits)
                        ELSE DecimalValue(digits)]

_is_valid_time_string(time) ==
    IF time.t # "str" THEN FALSE
    ELSE LET parts == Split(time.s, ":")
         IN  IF Len(parts) \notin {2, 3} THEN FALSE
             ELSE LET hours == int(parts[1])
                      minutes == int(parts[2])
                      seconds == IF Len(parts) = 3 THEN int(parts[3])
                                 ELSE [ok |-> TRUE, value |-> 0]
                  IN  IF ~(hours.ok /\ minutes.ok /\ seconds.ok) THEN FALSE
                      ELSE IF ~(0 <= hours.value /\ hours.value <= 23) THEN FALSE
                      ELSE IF ~(0 <= minutes.value /\ minutes.value <= 59) THEN FALSE
                      ELSE IF ~(0 <= seconds.value /\ seconds.value <= 59) THEN FALSE
                      ELSE TRUE

----------------------------------------------------------------------------
(* String literals of the source, as characters *)

\* the characters of a string literal of the source, one per element
Chars(word) ==
    CASE word = "event" -> <<"e", "v", "e", "n", "t">>
      [] word = "homeassistant" -> <<"h", "o", "m", "e", "a", "s", "s", "i", "s", "t", "a", "n", "t">>
      [] word = "mqtt" -> <<"m", "q", "t", "t">>
      [] word = "numeric_state" -> <<"n", "u", "m", "e", "r", "i", "c", "_", "s", "t", "a", "t", "e">>
      [] word = "state" -> <<"s", "t", "a", "t", "e">>
      [] word = "sun" -> <<"s", "u", "n">>
      [] word = "tag" -> <<"t", "a", "g">>
      [] word = "template" -> <<"t", "e", "m", "p", "l", "a", "t", "e">>
      [] word = "time" -> <<"t", "i", "m", "e">>
      [] word = "time_pattern" -> <<"t", "i", "m", "e", "_", "p", "a", "t", "t", "e", "r", "n">>
      [] word = "webhook" -> <<"w", "e", "b", "h", "o", "o", "k">>
      [] word = "zone" -> <<"z", "o", "n", "e">>
      [] word = "and" -> <<"a", "n", "d">>
      [] word = "or" -> <<"o", "r">>
      [] word = "not" -> <<"n", "o", "t">>
      [] word = "device" -> <<"d", "e", "v", "i", "c", "e">>
      [] word = "trigger" -> <<"t", "r", "i", "g", "g", "e", "r">>
      [] word = "single" -> <<"s", "i", "n", "g", "l", "e">>
      [] word = "restart" -> <<"r", "e", "s", "t", "a", "r", "t">>
      [] word = "queued" -> <<"q", "u", "e", "u", "e", "d">>
      [] word = "parallel" -> <<"p", "a", "r", "a", "l", "l", "e", "l">>
      [] word = "sunrise" -> <<"s", "u", "n", "r", "i", "s", "e">>
      [] word = "sunset" -> <<"s", "u", "n", "s", "e", "t">>
      [] word = "id" -> <<"i", "d">>
      [] word = "alias" -> <<"a", "l", "i", "a", "s">>
      [] word = "mode" -> <<"m", "o", "d", "e">>
      [] word = "condition" -> <<"c", "o", "n", "d", "i", "t", "i", "o", "n">>
      [] word = "action" -> <<"a", "c", "t", "i", "o", "n">>
      [] word = "service" -> <<"s", "e", "r", "v", "i", "c", "e">>
      [] word = "platform" -> <<"p", "l", "a", "t", "f", "o", "r", "m">>
      [] word = "delay" -> <<"d", "e", "l", "a", "y">>
      [] word = "light" -> <<"l", "i", "g", "h", "t">>
      [] word = "turn_on" -> <<"t", "u", "r", "n", "_", "o", "n">>
      [] word = "turn_off" -> <<"t", "u", "r", "n", "_", "o", "f", "f">>
      [] word = "climate" -> <<"c", "l", "i", "m", "a", "t", "e">>
      [] word = "set_temperature" -> <<"s", "e", "t", "_", "t", "e", "m", "p", "e", "r", "a", "t", "u", "r", "e">>
      [] word = "notify" -> <<"n", "o", "t", "i", "f", "y">>
      [] word = "switch" -> <<"s", "w", "i", "t", "c", "h">>
      [] word = "unknown" -> <<"u", "n", "k", "n", "o", "w", "n">>

\* the characters of the key literals, for 'key' in <str or list> and for the
\* keys a for loop over a dict visits
KeyChars(key) ==
    CASE key = "trigger" -> Chars("trigger")
      [] key = "id" -> Chars("id")
      [] key = "alias" -> Chars("alias")
      [] key = "mode" -> Chars("mode")
      [] key = "condition" -> Chars("condition")
      [] key = "action" -> Chars("action")
      [] key = "service" -> Chars("service")
      [] key = "platform" -> Chars("platform")
      [] key = "delay" -> Chars("delay")

----------------------------------------------------------------------------
(* Taxonomy tables *)

VALID_TRIGGER_PLATFORMS ==
    {Chars("event"), Chars("homeassistant"), Chars("mqtt"), Chars("numeric_state"), Chars("state"), Chars("sun"),
     Chars("tag"), Chars("template"), Chars("time"), Chars("time_pattern"), Chars("webhook"), Chars("zone")}

VALID_CONDITION_TYPES ==
    {Chars("and"), Chars("or"), Chars("not"), Chars("device"), Chars("numeric_state"), Chars("state"),
     Chars("sun"), Chars("template"), Chars("time"), Chars("trigger"), Chars("zone")}

\* the members are written as mapping keys, which is how the classifier
\* of validate_actions meets them; no statement of the module reads this table
VALID_ACTION_TYPES ==
    {"service", "delay", "wait_template", "wait_for_trigger",
     "repeat", "choose", "parallel", "if", "stop", "variables", "event"}

VALID_MODES == {Chars("single"), Chars("restart"), Chars("queued"), Chars("parallel")}

\* the module globals after import
SourceTables ==
    [VALID_TRIGGER_PLATFORMS |-> VALID_TRIGGER_PLATFORMS,
     VALID_CONDITION_TYPES |-> VALID_CONDITION_TYPES,
     VALID_MODES |-> VALID_MODES]

\* x in <set of str>: hashes x first, so an unhashable x is a TypeError
InSet(x, table) ==
    IF ~Hashable(x) THEN [exc |-> "TypeError", member |-> FALSE]
    ELSE [exc |-> "none", member |-> x.t = "str" /\ x.s \in table]

\* x == '<literal>'
IsStr(x, chars) == x.t = "str" /\ x.s = chars

----------------------------------------------------------------------------
(* validate_triggers *)

\* body of the for loop of validate_triggers for element i (zero-based)
check_trigger(i, trigger) ==
    IF trigger.t # "dict"
    THEN Returned(<< <<"Trigger ", ToString(i), " must be a dict, got ", trigger.t>> >>)
    ELSE IF ~HasKey(trigger, "platform")
    THEN Returned(<< <<"Trigger ", ToString(i), " missing required 'platform' field">> >>)
    ELSE LET platform == GetKey(trigger, "platform")
             known == InSet(platform, tables.VALID_TRIGGER_PLATFORMS)
         IN  IF known.exc # "none" THEN Raised(known.exc)
             ELSE IF ~known.member
             THEN Returned(<< <<"Trigger ", ToString(i), " has invalid platform '">>
                              \o PyFormat(platform) \o <<"'">> >>)
             ELSE IF IsStr(platform, Chars("time"))
             THEN IF ~HasKey(trigger, "at")
                  THEN Returned(<< <<"Time trigger ", ToString(i), " missing required 'at' field">> >>)
                  ELSE IF ~_is_valid_time_string(GetKey(trigger, "at"))
                  THEN Returned(<< <<"Time trigger ", ToString(i), " has invalid time format: ">>
                                   \o PyFormat(GetKey(trigger, "at")) >>)
                  ELSE Returned(<<>>)
             ELSE IF IsStr(platform, Chars("state"))
             THEN IF ~HasKey(trigger, "entity_id")
                  THEN Returned(<< <<"State trigger ", ToString(i), " missing required 'entity_id' field">> >>)
                  ELSE Returned(<<>>)
             ELSE IF IsStr(platform, Chars("numeric_state"))
             THEN Returned(
                    (IF ~HasKey(trigger, "entity_id")
                     THEN << <<"Numeric state trigger ", ToString(i), " missing required 'entity_id' field">> >>
                     ELSE <<>>)
                    \o
                    (IF ~HasKey(trigger, "above") /\ ~HasKey(trigger, "below")
                     THEN << <<"Numeric state trigger ", ToString(i), " must have 'above' or 'below'">> >>
                     ELSE <<>>))
             ELSE IF IsStr(platform, Chars("sun"))
             THEN IF ~HasKey(trigger, "event")
                  THEN Returned(<< <<"Sun trigger ", ToString(i), " missing required 'event' field">> >>)
                  ELSE IF ~(IsStr(GetKey(trigger, "event"), Chars("sunrise"))
                            \/ IsStr(GetKey(trigger, "event"), Chars("sunset")))
                  THEN Returned(<< <<"Sun trigger ", ToString(i), " event must be 'sunrise' or 'sunset'">> >>)
                  ELSE Returned(<<>>)
             ELSE Returned(<<>>)

\* the for loop of validate_triggers from element number from (one-based)
RECURSIVE trigger_loop(_, _)
trigger_loop(elems, from) ==
    IF from > Len(elems) THEN Returned(<<>>)
    ELSE Then(check_trigger(from - 1, elems[from]), trigger_loop(elems, from + 1))

\* validate_triggers treating a single mapping as a one-element list
validate_triggers_accepting_mapping(triggers) ==
    IF triggers.t = "dict" THEN trigger_loop(<<triggers>>, 1)
    ELSE IF triggers.t # "list"
    THEN Returned(<< <<"Triggers must be a list, got ", triggers.t>> >>)
    ELSE trigger_loop(triggers.list, 1)

validate_triggers(triggers) ==
    IF triggers.t # "list"
    THEN Returned(<< <<"Triggers must be a list, got ", triggers.t>> >>)
    ELSE trigger_loop(triggers.list, 1)

----------------------------------------------------------------------------
(* validate_conditions *)

\* body of the for loop of validate_conditions for element i (zero-based)
check_condition(i, condition) ==
    IF condition.t # "dict"
    THEN Returned(<< <<"Condition ", ToString(i), " must be a dict, got ", condition.t>> >>)
    ELSE IF ~HasKey(condition, "condition")
    THEN Returned(<< <<"Condition ", ToString(i), " missing required 'condition' field">> >>)
    ELSE LET cond_type == GetKey(condition, "condition")
             known == InSet(cond_type, tables.VALID_CONDITION_TYPES)
         IN  IF known.exc # "none" THEN Raised(known.exc)
             ELSE IF ~known.member
             THEN Returned(<< <<"Condition ", ToString(i), " has invalid type '">>
                              \o PyFormat(cond_type) \o <<"'">> >>)
             ELSE IF IsStr(cond_type, Chars("state"))
             THEN Returned(
                    (IF ~HasKey(condition, "entity_id")
                     THEN << <<"State condition ", ToString(i), " missing required 'entity_id' field">> >>
                     ELSE <<>>)
                    \o
                    (IF ~HasKey(condition, "state")
                     THEN << <<"State condition ", ToString(i), " missing required 'state' field">> >>
                     ELSE <<>>))
             ELSE IF IsStr(cond_type, Chars("numeric_state"))
             THEN Returned(
                    (IF ~HasKey(condition, "entity_id")
                     THEN << <<"Numeric state condition ", ToString(i), " missing required 'entity_id' field">> >>
                     ELSE <<>>)
                    \o
                    (IF ~HasKey(condition, "above") /\ ~HasKey(condition, "below")
                     THEN << <<"Numeric state condition ", ToString(i), " must have 'above' or 'below'">> >>
                     ELSE <<>>))
             ELSE IF IsStr(cond_type, Chars("time"))
             THEN LET has_after == HasKey(condition, "after")
                      has_before == HasKey(condition, "before")
                  IN  Returned(
                        (IF ~has_after /\ ~has_before
                         THEN << <<"Time condition ", ToString(i), " must have 'after' or 'before'">> >>
                         ELSE <<>>)
                        \o
                        (IF has_after /\ ~_is_valid_time_string(GetKey(condition, "after"))
                         THEN << <<"Time condition ", ToString(i), " has invalid 'after' time format">> >>
                         ELSE <<>>)
                        \o
                        (IF has_before /\ ~_is_valid_time_string(GetKey(condition, "before"))
                         THEN << <<"Time condition ", ToString(i), " has invalid 'before' time format">> >>
                         ELSE <<>>))
             ELSE Returned(<<>>)

\* the for loop of validate_conditions from element number from (one-based)
RECURSIVE condition_loop(_, _)
condition_loop(elems, from) ==
    IF from > Len(elems) THEN Returned(<<>>)
    ELSE Then(check_condition(from - 1, elems[from]), condition_loop(elems, from + 1))

\* validate_conditions taking None for an absent list
validate_conditions_accepting_none(conditions) ==
    IF conditions.t = "NoneType" THEN Returned(<<>>)
    ELSE IF conditions.t # "list"
    THEN Returned(<< <<"Conditions must be a list, got ", conditions.t>> >>)
    ELSE condition_loop(conditions.list, 1)

validate_conditions(conditions) ==
    IF conditions.t # "list"
    THEN Returned(<< <<"Conditions must be a list, got ", conditions.t>> >>)
    ELSE condition_loop(conditions.list, 1)

----------------------------------------------------------------------------
(* validate_actions *)

\* the chain with the 'parallel' test moved ahead of the 'variables' test
action_type_parallel_first(action) ==
    IF HasKey(action, "service") THEN "service"
    ELSE IF HasKey(action, "delay") THEN "delay"
    ELSE IF HasKey(action, "wait_template") THEN "wait_template"
    ELSE IF HasKey(action, "repeat") THEN "repeat"
    ELSE IF HasKey(action, "choose") THEN "choose"
    ELSE IF HasKey(action, "if") THEN "if"
    ELSE IF HasKey(action, "stop") THEN "stop"
    ELSE IF HasKey(action, "parallel") THEN "parallel"
    ELSE IF HasKey(action, "variables") THEN "variables"
    ELSE IF HasKey(action, "event") THEN "event"
    ELSE "none"

\* the if / elif chain that determines action_type; "none" is the else branch
action_type(action) ==
    IF HasKey(action, "service") THEN "service"
    ELSE IF HasKey(action, "delay") THEN "delay"
    ELSE IF HasKey(action, "wait_template") THEN "wait_template"
    ELSE IF HasKey(action, "repeat") THEN "repeat"
    ELSE IF HasKey(action, "choose") THEN "choose"
    ELSE IF HasKey(action, "if") THEN "if"
    ELSE IF HasKey(action, "stop") THEN "stop"
    ELSE IF HasKey(action, "variables") THEN "variables"
    ELSE IF HasKey(action, "parallel") THEN "parallel"
    ELSE IF HasKey(action, "event") THEN "event"
    ELSE "none"

\* the check with the split left out: any string with a '.' passes
check_service_any_dot(i, service) ==
    IF service.t # "str"
    THEN << <<"Action ", ToString(i), " service must be a string">> >>
    ELSE IF \A j \in 1..Len(service.s) : service.s[j] # "."
    THEN << <<"Action ", ToString(i), " service '">> \o service.s
            \o <<"' ", "must be in format 'domain.service'">> >>
    ELSE <<>>

\* the service-string check of a 'service' action
check_service(i, service) ==
    IF service.t # "str"
    THEN << <<"Action ", ToString(i), " service must be a string">> >>
    ELSE IF \A j \in 1..Len(service.s) : service.s[j] # "."
    THEN << <<"Action ", ToString(i), " service '">> \o service.s
            \o <<"' ", "must be in format 'domain.service'">> >>
    ELSE LET dot == CHOOSE j \in 1..Len(service.s) :
                        service.s[j] = "." /\ \A h \in 1..(j - 1) : service.s[h] # "."
             domain == SubSeq(service.s, 1, dot - 1)
             service_name == SubSeq(service.s, dot + 1, Len(service.s))
         IN  IF Len(domain) = 0 \/ Len(service_name) = 0
             THEN << <<"Action ", ToString(i), " has invalid service format: '">>
                     \o service.s \o <<"'">> >>
             ELSE <<>>

\* the target check that is content with any mapping
check_target_any_mapping(i, action) ==
    IF ~HasKey(action, "target") THEN <<>>
    ELSE IF GetKey(action, "target").t # "dict"
    THEN << <<"Action ", ToString(i), " target must be a dict">> >>
    ELSE <<>>

\* the target check of a 'service' action
check_target(i, action) ==
    IF ~HasKey(action, "target") THEN <<>>
    ELSE LET target == GetKey(action, "target")
         IN  IF target.t # "dict"
             THEN << <<"Action ", ToString(i), " target must be a dict">> >>
             ELSE IF ~HasKey(target, "entity_id") /\ ~HasKey(target, "device_id")
                     /\ ~HasKey(target, "area_id")
             THEN << <<"Action ", ToString(i), " target must have entity_id, device_id, or area_id">> >>
             ELSE <<>>

\* the checks with the empty string refused as a delay without units
check_delay_refusing_empty_string(i, delay) ==
    IF delay.t \notin {"dict", "str"}
    THEN << <<"Action ", ToString(i), " delay must be a dict or string">> >>
    ELSE IF \/ delay.t = "dict"
               /\ ~\E key \in {"hours", "minutes", "seconds", "milliseconds"} : HasKey(delay, key)
            \/ delay.t = "str" /\ Len(delay.s) = 0
    THEN << <<"Action ", ToString(i), " delay must have time units">> >>
    ELSE <<>>

\* the checks with the index left out of the second message
check_delay_unindexed(i, delay) ==
    IF delay.t \notin {"dict", "str"}
    THEN << <<"Action ", ToString(i), " delay must be a dict or string">> >>
    ELSE IF delay.t = "dict"
            /\ ~\E key \in {"hours", "minutes", "seconds", "milliseconds"} : HasKey(delay, key)
    THEN << <<"Action delay must have time units">> >>
    ELSE <<>>

\* the checks of a 'delay' action
check_delay(i, delay) ==
    IF delay.t \notin {"dict", "str"}
    THEN << <<"Action ", ToString(i), " delay must be a dict or string">> >>
    ELSE IF delay.t = "dict"
            /\ ~\E key \in {"hours", "minutes", "seconds", "milliseconds"} : HasKey(delay, key)
    THEN << <<"Action ", ToString(i), " delay must have time units">> >>
    ELSE <<>>

\* the re-emission with the 'parallel:' tag left out of the f-string
prefix_parallel_untagged(i, parallel_errors) ==
    [e \in 1..Len(parallel_errors) |-> <<"Action ", ToString(i), " ">> \o parallel_errors[e]]

\* errors of a nested list re-emitted by the parent action i
prefix_parallel(i, parallel_errors) ==
    [e \in 1..Len(parallel_errors) |->
        <<"Action ", ToString(i), " ", "parallel:", " ">> \o parallel_errors[e]]

RECURSIVE validate_actions(_)

\* body of the for loop of validate_actions for element i (zero-based)
check_action(i, action) ==
    IF action.t # "dict"
    THEN << <<"Action ", ToString(i), " must be a dict, got ", action.t>> >>
    ELSE LET kind == action_type(action)
         IN  IF kind = "none"
             THEN << <<"Action ", ToString(i), " has no recognized action type">> >>
             ELSE IF kind = "service"
             THEN check_service(i, GetKey(action, "service")) \o check_target(i, action)
             ELSE IF kind = "delay"
             THEN check_delay(i, GetKey(action, "delay"))
             ELSE IF kind = "parallel"
             THEN LET parallel == GetKey(action, "parallel")
                  IN  IF parallel.t # "list"
                      THEN << <<"Action ", ToString(i), " parallel must be a list">> >>
                      ELSE prefix_parallel(i, validate_actions(parallel).errors)
             ELSE <<>>

\* the for loop of validate_actions from element number from (one-based)
RECURSIVE action_loop(_, _)
action_loop(elems, from) ==
    IF from > Len(elems) THEN <<>>
    ELSE check_action(from - 1, elems[from]) \o action_loop(elems, from + 1)

\* validate_actions without the emptiness check of lines 192-193
validate_actions_allowing_empty(actions) ==
    IF actions.t # "list"
    THEN Returned(<< <<"Actions must be a list, got ", actions.t>> >>)
    ELSE Returned(action_loop(actions.list, 1))

validate_actions(actions) ==
    IF actions.t # "list"
    THEN Returned(<< <<"Actions must be a list, got ", actions.t>> >>)
    ELSE IF Len(actions.list) = 0
    THEN Returned(<< <<"Automation must have at least one action">> >>)
    ELSE Returned(action_loop(actions.list, 1))

----------------------------------------------------------------------------
(* validate_automation_config *)

\* chars occurs in text as a contiguous run ('sub' in 'text')
IsSubstring(chars, text) ==
    \E start \in 1..(Len(text) - Len(chars) + 1) :
        SubSeq(text, start, start + Len(chars) - 1) = chars

\* 'key' in container can be evaluated: the container is iterable
Iterable(container) == container.t \in {"dict", "list", "str"}

\* 'key' in container, for an iterable container
Contains(container, key) ==
    IF container.t = "dict" THEN HasKey(container, key)
    ELSE IF container.t = "list"
    THEN \E j \in 1..Len(container.list) : IsStr(container.list[j], KeyChars(key))
    ELSE IsSubstring(KeyChars(key), container.s)

\* container['key'] where the key was found: only a dict can be subscripted by a str
Subscript(container, key) ==
    IF container.t = "dict" THEN [exc |-> "none", val |-> GetKey(container, key)]
    ELSE [exc |-> "TypeError", val |-> PyNone]

\* lines 47-49
check_required(cfg) ==
    IF ~Contains(cfg, "trigger") /\ ~Contains(cfg, "id")
    THEN Returned(<< <<"Automation must have either 'trigger' or 'id' field">> >>)
    ELSE Returned(<<>>)

\* lines 51-56
check_id(cfg) ==
    IF ~Contains(cfg, "id") THEN Returned(<<>>)
    ELSE LET id == Subscript(cfg, "id")
         IN  IF id.exc # "none" THEN Raised(id.exc)
             ELSE IF id.val.t # "str"
             THEN Returned(<< <<"ID must be a string, got ", id.val.t>> >>)
             ELSE IF Len(id.val.s) = 0
             THEN Returned(<< <<"ID cannot be empty">> >>)
             ELSE Returned(<<>>)

\* lines 58-61
check_alias(cfg) ==
    IF ~Contains(cfg, "alias") THEN Returned(<<>>)
    ELSE LET alias == Subscript(cfg, "alias")
         IN  IF alias.exc # "none" THEN Raised(alias.exc)
             ELSE IF alias.val.t # "str"
             THEN Returned(<< <<"Alias must be a string, got ", alias.val.t>> >>)
             ELSE Returned(<<>>)

\* lines 63-66; the message lists VALID_MODES in the set's iteration order
check_mode(cfg) ==
    IF ~Contains(cfg, "mode") THEN Returned(<<>>)
    ELSE LET mode == Subscript(cfg, "mode")
         IN  IF mode.exc # "none" THEN Raised(mode.exc)
             ELSE LET known == InSet(mode.val, tables.VALID_MODES)
                  IN  IF known.exc # "none" THEN Raised(known.exc)
                      ELSE IF ~known.member
                      THEN Returned(<< <<"Invalid mode '">> \o PyFormat(mode.val)
                                       \o <<"'. Must be one of: ">>
                                       \o Join(<<", ">>, modes_order) >>)
                      ELSE Returned(<<>>)

\* lines 68-71
check_trigger_section(cfg) ==
    IF ~Contains(cfg, "trigger") THEN Returned(<<>>)
    ELSE LET trigger == Subscript(cfg, "trigger")
         IN  IF trigger.exc # "none" THEN Raised(trigger.exc)
             ELSE validate_triggers(trigger.val)

\* lines 73-76
check_condition_section(cfg) ==
    IF ~Contains(cfg, "condition") THEN Returned(<<>>)
    ELSE LET condition == Subscript(cfg, "condition")
         IN  IF condition.exc # "none" THEN Raised(condition.exc)
             ELSE validate_conditions(condition.val)

\* lines 78-83
check_action_section(cfg) ==
    IF Contains(cfg, "action")
    THEN LET action == Subscript(cfg, "action")
         IN  IF action.exc # "none" THEN Raised(action.exc)
             ELSE validate_actions(action.val)
    ELSE Returned(<< <<"Automation must have 'action' field">> >>)

\* the errors list kept across calls (a module-level list instead of a local)
collect_errors_shared_list(cfg) ==
    IF ~Iterable(cfg) THEN Raised("TypeError")
    ELSE Then(Returned(result.errors),
         Then(check_required(cfg),
         Then(check_id(cfg),
         Then(check_alias(cfg),
         Then(check_mode(cfg),
         Then(check_trigger_section(cfg),
         Then(check_condition_section(cfg),
              check_action_section(cfg))))))))

\* the sections validated in the order action, trigger, condition
collect_errors_actions_first(cfg) ==
    IF ~Iterable(cfg) THEN Raised("TypeError")
    ELSE Then(check_required(cfg),
         Then(check_id(cfg),
         Then(check_alias(cfg),
         Then(check_mode(cfg),
         Then(check_action_section(cfg),
         Then(check_trigger_section(cfg),
              check_condition_section(cfg)))))))

\* lines 45-83: the errors list as the statements build it
collect_errors(cfg) ==
    IF ~Iterable(cfg) THEN Raised("TypeError")
    ELSE Then(check_required(cfg),
         Then(check_id(cfg),
         Then(check_alias(cfg),
         Then(check_mode(cfg),
         Then(check_trigger_section(cfg),
         Then(check_condition_section(cfg),
              check_action_section(cfg)))))))

\* the return statement with the flag inverted: return len(errors) != 0, errors
validate_automation_config_flag_inverted(cfg) ==
    LET errors == collect_errors(cfg)
    IN  IF errors.exc # "none" THEN RaisedResult(errors.exc)
        ELSE [exc |-> "none", is_valid |-> Len(errors.errors) # 0, errors |-> errors.errors]

\* line 85: return len(errors) == 0, errors
validate_automation_config(cfg) ==
    LET errors == collect_errors(cfg)
    IN  IF errors.exc # "none" THEN RaisedResult(errors.exc)
        ELSE [exc |-> "none", is_valid |-> Len(errors.errors) = 0, errors |-> errors.errors]

----------------------------------------------------------------------------
(* validate_service_data *)

\* isinstance(x, (int, float)); bool is a subclass of int
IsNumber(x) == x.t \in {"int", "float", "bool"}

\* the range check with the upper bound excluded
check_range_exclusive(data, key, low, high, text) ==
    IF ~HasKey(data, key) THEN <<>>
    ELSE LET value == GetKey(data, key)
         IN  IF ~IsNumber(value) \/ ~(low <= value.n /\ value.n < high)
             THEN << <<key, text>> \o PyFormat(value) >>
             ELSE <<>>

\* one range check of light.turn_on: the key, the bounds and the text of the message
check_range(data, key, low, high, text) ==
    IF ~HasKey(data, key) THEN <<>>
    ELSE LET value == GetKey(data, key)
         IN  IF ~IsNumber(value) \/ ~(low <= value.n /\ value.n <= high)
             THEN << <<key, text>> \o PyFormat(value) >>
             ELSE <<>>

\* one lower-bound check of light.turn_on
check_minimum(data, key, low, text) ==
    IF ~HasKey(data, key) THEN <<>>
    ELSE LET value == GetKey(data, key)
         IN  IF ~IsNumber(value) \/ value.n < low
             THEN << <<key, text>> \o PyFormat(value) >>
             ELSE <<>>

\* the climate check with 'temperature' optional
check_temperature_optional(data) ==
    IF ~HasKey(data, "temperature") THEN <<>>
    ELSE LET temp == GetKey(data, "temperature")
         IN  IF ~IsNumber(temp) \/ ~(0 - 50 <= temp.n /\ temp.n <= 50)
             THEN << <<"temperature seems unrealistic: ">> \o PyFormat(temp) >>
             ELSE <<>>

\* lines 324-329
check_temperature(data) ==
    IF ~HasKey(data, "temperature")
    THEN << <<"climate.set_temperature requires 'temperature' field">> >>
    ELSE LET temp == GetKey(data, "temperature")
         IN  IF ~IsNumber(temp) \/ ~(0 - 50 <= temp.n /\ temp.n <= 50)
             THEN << <<"temperature seems unrealistic: ">> \o PyFormat(temp) >>
             ELSE <<>>

\* the notify check that also wants the message to be a string
check_message_as_string(data) ==
    IF ~HasKey(data, "message") \/ GetKey(data, "message").t # "str"
    THEN << <<"notify services require 'message' field">> >>
    ELSE <<>>

\* lines 332-333
check_message(data) ==
    IF ~HasKey(data, "message")
    THEN << <<"notify services require 'message' field">> >>
    ELSE <<>>

\* lines 295-333: the errors list; data is a dict or a value that is not iterable
service_data_errors(domain, service, data) ==
    IF IsStr(domain, Chars("light"))
    THEN IF IsStr(service, Chars("turn_on"))
         THEN IF data.t # "dict" THEN Raised("TypeError")
              ELSE Returned(check_range(data, "brightness", 0, 255, " must be 0-255, got ")
                            \o check_range(data, "brightness_pct", 0, 100, " must be 0-100, got ")
                            \o check_minimum(data, "color_temp", 0, " must be positive, got ")
                            \o check_minimum(data, "transition", 0, " must be non-negative, got "))
         ELSE Returned(<<>>)
    ELSE IF IsStr(domain, Chars("climate"))
    THEN IF IsStr(service, Chars("set_temperature"))
         THEN IF data.t # "dict" THEN Raised("TypeError")
              ELSE Returned(check_temperature(data))
         ELSE Returned(<<>>)
    ELSE IF IsStr(domain, Chars("notify"))
    THEN IF data.t # "dict" THEN Raised("TypeError")
         ELSE Returned(check_message(data))
    ELSE Returned(<<>>)

\* the validator with the light checks applied to every service of 'light'
validate_service_data_any_light_service(domain, service, data) ==
    LET errors == service_data_errors(domain,
                                      IF IsStr(domain, Chars("light")) THEN PyStr(Chars("turn_on")) ELSE service,
                                      data)
    IN  IF errors.exc # "none" THEN RaisedResult(errors.exc)
        ELSE [exc |-> "none", is_valid |-> Len(errors.errors) = 0, errors |-> errors.errors]

\* line 335: return len(errors) == 0, errors
validate_service_data(domain, service, data) ==
    LET errors == service_data_errors(domain, service, data)
    IN  IF errors.exc # "none" THEN RaisedResult(errors.exc)
        ELSE [exc |-> "none", is_valid |-> Len(errors.errors) = 0, errors |-> errors.errors]

----------------------------------------------------------------------------
(* assert_valid_automation *)

\* line 342: the generator f"  - {e}" for e in errors
error_lines(errors) == [k \in 1..Len(errors) |-> <<"  - ">> \o errors[k]]

\* lines 341-342 with the generator stopped after the first error
raise_if_invalid_first_error_only(outcome) ==
    IF outcome.exc # "none" THEN [exc |-> outcome.exc, message |-> <<>>]
    ELSE IF ~outcome.is_valid
    THEN [exc |-> "ValidationError",
          message |-> <<"Invalid automation configuration:", "\n">>
                      \o error_lines(outcome.errors)[1]]
    ELSE [exc |-> "none", message |-> <<>>]

\* lines 341-342, given the outcome of line 340; an exception of the validator
\* passes through the wrapper
raise_if_invalid(outcome) ==
    IF outcome.exc # "none" THEN [exc |-> outcome.exc, message |-> <<>>]
    ELSE IF ~outcome.is_valid
    THEN [exc |-> "ValidationError",
          message |-> <<"Invalid automation configuration:", "\n">>
                      \o Join(<<"\n">>, error_lines(outcome.errors))]
    ELSE [exc |-> "none", message |-> <<>>]

\* lines 340-342: the validator is called once and its result is bound
assert_valid_automation(cfg) ==
    CHOOSE raised \in {raise_if_invalid(outcome) :
                            outcome \in {validate_automation_config(cfg)}} : TRUE

----------------------------------------------------------------------------
(* get_automation_summary *)

\* len(x) is defined
Sized(x) == x.t \in {"str", "list", "dict"}

\* what a for loop over x visits: the items of a list, the characters of a
\* str, the keys of a dict
Elements(x) ==
    IF x.t = "list" THEN x.list
    ELSE IF x.t = "str" THEN [i \in 1..Len(x.s) |-> PyStr(<<x.s[i]>>)]
    ELSE [i \in 1..Len(x.dict) |-> PyStr(KeyChars(x.dict[i].k))]

\* x.get(key, default): only a dict has the method
Get(x, key, default) ==
    IF x.t # "dict" THEN [exc |-> "AttributeError", val |-> PyNone]
    ELSE [exc |-> "none", val |-> IF HasKey(x, key) THEN GetKey(x, key) ELSE default]

\* the orders in which a for loop may visit the members of a set
IterationOrders(S) ==
    {order \in [1..Cardinality(S) -> S] :
        \A i, j \in 1..Cardinality(S) : i # j => order[i] # order[j]}

\* lines 351, 353, 355: one f-string part of the basic info
basic_info(cfg, key, label) ==
    IF ~Contains(cfg, key) THEN Returned(<<>>)
    ELSE LET value == Subscript(cfg, key)
         IN  IF value.exc # "none" THEN Raised(value.exc)
             ELSE Returned(<< <<label>> \o PyFormat(value.val) >>)

\* lines 360, 366: the set comprehension {x.get(key, 'unknown') for x in ...},
\* from element number from (one-based); adding to the set hashes the value
RECURSIVE sub_field_set(_, _, _)
sub_field_set(elems, key, from) ==
    IF from > Len(elems) THEN [exc |-> "none", set |-> {}]
    ELSE LET got == Get(elems[from], key, PyStr(Chars("unknown")))
         IN  IF got.exc # "none" THEN [exc |-> got.exc, set |-> {}]
             ELSE IF ~Hashable(got.val) THEN [exc |-> "TypeError", set |-> {}]
             ELSE LET rest == sub_field_set(elems, key, from + 1)
                  IN  IF rest.exc # "none" THEN rest
                      ELSE [exc |-> "none", set |-> {got.val} \cup rest.set]

\* lines 358-361 and 364-367: the outcomes of a counted section, one for each
\* order in which ', '.join may visit the set; join accepts only str items
counted_section(cfg, key, label, sub_field) ==
    IF ~Contains(cfg, key) THEN {Returned(<<>>)}
    ELSE LET value == Subscript(cfg, key)
         IN  IF value.exc # "none" THEN {Raised(value.exc)}
             ELSE IF ~Sized(value.val) THEN {Raised("TypeError")}
             ELSE LET types == sub_field_set(Elements(value.val), sub_field, 1)
                  IN  IF types.exc # "none" THEN {Raised(types.exc)}
                      ELSE IF \E x \in types.set : x.t # "str" THEN {Raised("TypeError")}
                      ELSE {Returned(<< <<label, ToString(Len(Elements(value.val))), " (">>
                                        \o Join(<<", ">>, [i \in 1..Len(order) |-> order[i].s])
                                        \o <<")">> >>)
                            : order \in IterationOrders(types.set)}

\* line 372: [a.get('service', '') for a in ... if 'service' in a], from
\* element number from (one-based)
RECURSIVE services_of(_, _)
services_of(elems, from) ==
    IF from > Len(elems) THEN [exc |-> "none", list |-> <<>>]
    ELSE LET a == elems[from]
         IN  IF ~Iterable(a) THEN [exc |-> "TypeError", list |-> <<>>]
             ELSE LET got == IF Contains(a, "service")
                             THEN Get(a, "service", PyStr(<<>>))
                             ELSE [exc |-> "none", val |-> PyNone]
                      rest == services_of(elems, from + 1)
                  IN  IF got.exc # "none" THEN [exc |-> got.exc, list |-> <<>>]
                      ELSE IF rest.exc # "none" THEN rest
                      ELSE IF Contains(a, "service")
                      THEN [exc |-> "none", list |-> <<got.val>> \o rest.list]
                      ELSE rest

\* lines 370-376
action_section(cfg) ==
    IF ~Contains(cfg, "action") THEN Returned(<<>>)
    ELSE LET value == Subscript(cfg, "action")
         IN  IF value.exc # "none" THEN Raised(value.exc)
             ELSE IF ~Sized(value.val) THEN Raised("TypeError")
             ELSE LET services == services_of(Elements(value.val), 1)
                      action_count == ToString(Len(Elements(value.val)))
                  IN  IF services.exc # "none" THEN Raised(services.exc)
                      ELSE IF Len(services.list) = 0
                      THEN Returned(<< <<"Actions: ", action_count>> >>)
                      ELSE IF \E i \in 1..Len(services.list) : services.list[i].t # "str"
                      THEN Raised("TypeError")
                      ELSE Returned(<< <<"Actions: ", action_count, " (services: ">>
                                       \o Join(<<", ">>, [i \in 1..Len(services.list) |->
                                                            services.list[i].s])
                                       \o <<")">> >>)

\* lines 347-378: the outcomes a call can have; they differ in the order in
\* which the two sets are joined. The parts list is carried in the errors
\* field of the statement outcomes.
get_automation_summary(cfg) ==
    IF ~Iterable(cfg) THEN {[exc |-> "TypeError", text |-> <<>>]}
    ELSE {LET parts == Then(basic_info(cfg, "id", "ID: "),
                       Then(basic_info(cfg, "alias", "Alias: "),
                       Then(basic_info(cfg, "mode", "Mode: "),
                       Then(triggers,
                       Then(conditions,
                            action_section(cfg))))))
          IN  IF parts.exc # "none" THEN [exc |-> parts.exc, text |-> <<>>]
              ELSE [exc |-> "none", text |-> Join(<<" | ">>, parts.errors)]
          : triggers \in counted_section(cfg, "trigger", "Triggers: ", "platform"),
            conditions \in counted_section(cfg, "condition", "Conditions: ", "condition")}

----------------------------------------------------------------------------
(* scripts/validate_automations.py *)

\* line 38: the document is skipped as 'not an automation file'
not_an_automation(document) ==
    document.t # "dict" \/ (~HasKey(document, "trigger") /\ ~HasKey(document, "id"))

\* lines 26-53: the outcomes a call can have, as the value returned or the
\* exception that leaves the function; a file that does not load is caught
\* and answered with False, a skipped file with True
validate_file(file) ==
    IF ~file.loads THEN {[exc |-> "none", value |-> "False"]}
    ELSE IF not_an_automation(file.document) THEN {[exc |-> "none", value |-> "True"]}
    ELSE UNION {
            IF outcome.exc # "none" THEN {[exc |-> outcome.exc, value |-> "None"]}
            ELSE IF outcome.is_valid
            THEN {[exc |-> text.exc, value |-> IF text.exc = "none" THEN "True" ELSE "None"] :
                    text \in get_automation_summary(file.document)}
            ELSE {[exc |-> "none", value |-> "False"]}
            : outcome \in {validate_automation_config(file.document)}}

\* lines 85-91: the counters after one file's result
count_result(state, value) ==
    [state EXCEPT !.processed = @ + 1,
                  !.skipped_count = IF value = "None" THEN @ + 1 ELSE @,
                  !.valid_count = IF value = "True" THEN @ + 1 ELSE @,
                  !.invalid_count = IF value = "False" THEN @ + 1 ELSE @]

----------------------------------------------------------------------------

(* Inputs of the exploration *)

\* characters typed into a time string
TimeAlphabet == {"0", "2", "6", ":", " ", "_", "-", "a"}

\* time arguments the exploration starts from
TimeSeeds ==
    {PyStr(<<>>), PyStr(<<"2", "3", ":", "5", "9", ":", "5", "9">>), PyStr(<<"2", "4", ":", "0", "0">>), PyStr(<<"1", "0", ":", "6", "0">>),
     PyStr(<<"a", "b", "c">>), PyInt(1030), PyNone, PyList(<<PyStr(<<"1", "0", ":", "0", "0">>)>>)}

\* arguments that are not a list
NonSequenceInputs ==
    {PyNone, PyInt(5), PyBool(TRUE), PyStr(<<"a", "b", "c">>), PyDict(<<>>),
     PyDict(<<KV("platform", PyStr(Chars("time")))>>)}

T_valid_time == PyDict(<<KV("platform", PyStr(Chars("time"))), KV("at", PyStr(<<"1", "0", ":", "0", "0", ":", "0", "0">>))>>)

T_bad_time == PyDict(<<KV("platform", PyStr(Chars("time"))), KV("at", PyStr(<<"2", "5", ":", "0", "0">>))>>)

T_bad_platform == PyDict(<<KV("platform", PyStr(<<"n", "o", "p", "e">>))>>)

T_unhashable_platform == PyDict(<<KV("platform", PyList(<<>>))>>)

\* an 'at' value that int() parses although it is no HH:MM text
T_lenient_time == PyDict(<<KV("platform", PyStr(Chars("time"))), KV("at", PyStr(<<"1", "_", "0", ":", "3", "0">>))>>)

TriggerElements ==
    {T_valid_time, T_bad_time, T_bad_platform, T_unhashable_platform,
     PyStr(<<"a", "b", "c">>),
     PyDict(<<KV("at", PyStr(<<"1", "0", ":", "0", "0", ":", "0", "0">>))>>),
     PyDict(<<KV("platform", PyInt(5))>>),
     PyDict(<<KV("platform", PyStr(Chars("time")))>>),
     PyDict(<<KV("platform", PyStr(Chars("time"))), KV("at", PyInt(1030))>>),
     PyDict(<<KV("platform", PyStr(Chars("state")))>>),
     PyDict(<<KV("platform", PyStr(Chars("state"))), KV("entity_id", PyStr(<<"e">>))>>),
     PyDict(<<KV("platform", PyStr(Chars("numeric_state")))>>),
     PyDict(<<KV("platform", PyStr(Chars("numeric_state"))), KV("entity_id", PyStr(<<"e">>)),
              KV("below", PyInt(5))>>),
     PyDict(<<KV("platform", PyStr(Chars("sun")))>>),
     PyDict(<<KV("platform", PyStr(Chars("sun"))), KV("event", PyStr(Chars("sunset")))>>),
     PyDict(<<KV("platform", PyStr(Chars("sun"))), KV("event", PyStr(<<"n", "o", "o", "n">>))>>),
     PyDict(<<KV("platform", PyStr(Chars("webhook")))>>),
     T_lenient_time,
     PyDict(<<KV("platform", PyStr(Chars("numeric_state"))), KV("entity_id", PyStr(<<"e">>))>>),
     PyDict(<<KV("platform", PyStr(Chars("numeric_state"))), KV("above", PyInt(5))>>),
     PyDict(<<KV("platform", PyStr(Chars("sun"))), KV("event", PyInt(5))>>)}

C_valid_state ==
    PyDict(<<KV("condition", PyStr(Chars("state"))), KV("entity_id", PyStr(<<"e">>)),
             KV("state", PyStr(<<"o", "n">>))>>)

C_bad_state == PyDict(<<KV("condition", PyStr(Chars("state")))>>)

\* an 'after' value that int() parses although it is no HH:MM text
C_lenient_time == PyDict(<<KV("condition", PyStr(Chars("time"))), KV("after", PyStr(<<"1", "_", "0", ":", "3", "0">>))>>)

ConditionElements ==
    {C_valid_state, C_bad_state,
     PyInt(5),
     PyDict(<<KV("entity_id", PyStr(<<"e">>))>>),
     PyDict(<<KV("condition", PyStr(<<"n", "o", "p", "e">>))>>),
     PyDict(<<KV("condition", PyDict(<<>>))>>),
     PyDict(<<KV("condition", PyStr(Chars("numeric_state")))>>),
     PyDict(<<KV("condition", PyStr(Chars("numeric_state"))), KV("entity_id", PyStr(<<"e">>)),
              KV("above", PyInt(5))>>),
     PyDict(<<KV("condition", PyStr(Chars("time")))>>),
     PyDict(<<KV("condition", PyStr(Chars("time"))), KV("after", PyStr(<<"1", "0", ":", "0", "0">>))>>),
     PyDict(<<KV("condition", PyStr(Chars("time"))), KV("after", PyStr(<<"1", "0", ":", "0", "0">>)),
              KV("before", PyStr(<<"2", "4", ":", "0", "0">>))>>),
     PyDict(<<KV("condition", PyStr(Chars("and"))), KV("conditions", PyInt(5))>>),
     PyDict(<<KV("condition", PyStr(Chars("template")))>>),
     C_lenient_time,
     PyDict(<<KV("condition", PyStr(Chars("time"))), KV("before", PyInt(1030))>>),
     PyDict(<<KV("condition", PyStr(Chars("time"))), KV("after", PyStr(<<"2", "5", ":", "0", "0">>)),
              KV("before", PyStr(<<"a", "b", "c">>))>>),
     PyDict(<<KV("condition", PyStr(Chars("state"))), KV("state", PyStr(<<"o", "n">>))>>),
     PyDict(<<KV("condition", PyStr(Chars("numeric_state"))), KV("below", PyInt(5))>>),
     PyDict(<<KV("condition", PyStr(Chars("not"))), KV("conditions", PyList(<<PyInt(5)>>))>>)}

A_valid_service == PyDict(<<KV("service", PyStr(<<"l", "i", "g", "h", "t", ".", "t", "u", "r", "n", "_", "o", "n">>))>>)

A_no_dot == PyDict(<<KV("service", PyStr(<<"t", "u", "r", "n", "o", "n">>))>>)

A_empty_delay == PyDict(<<KV("delay", PyDict(<<>>))>>)

\* a malformed 'parallel' value beside a 'variables' key
A_variables_and_parallel == PyDict(<<KV("parallel", PyInt(5)), KV("variables", PyDict(<<>>))>>)

\* service values around the shape domain.service_name
ServiceStrings ==
    {<<>>, <<".">>, <<"x", ".">>, <<".", "x">>, <<".", "a", ".", "b">>, <<"a", ".", ".">>,
     <<"a", ".", "b", ".", "c">>}

\* values tried under 'target'
TargetValues ==
    {PyInt(5), PyStr(<<"e">>), PyDict(<<>>), PyDict(<<KV("entity_id", PyStr(<<"e">>))>>),
     PyDict(<<KV("device_id", PyNone)>>), PyDict(<<KV("floor_id", PyStr(<<"e">>))>>)}

\* values tried under 'delay'
DelayValues ==
    {PyNone, PyList(<<>>), PyStr(<<>>), PyStr(<<"a", "b", "c">>),
     PyDict(<<KV("days", PyInt(1))>>), PyDict(<<KV("hours", PyInt(1))>>),
     PyDict(<<KV("minutes", PyStr(<<"a", "b", "c">>))>>),
     PyDict(<<KV("milliseconds", PyInt(0)), KV("days", PyInt(1))>>)}

ActionElements ==
    {A_valid_service, A_no_dot, A_empty_delay, A_variables_and_parallel,
     PyInt(5),
     PyDict(<<KV("data", PyDict(<<>>))>>),
     PyDict(<<KV("service", PyStr(<<".", "x">>)), KV("target", PyDict(<<>>))>>),
     PyDict(<<KV("service", PyInt(5)), KV("target", PyDict(<<KV("area_id", PyStr(<<"a">>))>>))>>),
     PyDict(<<KV("delay", PyInt(5)), KV("service", PyStr(<<"l", "i", "g", "h", "t", ".", "t", "u", "r", "n", "_", "o", "n">>))>>),
     PyDict(<<KV("delay", PyDict(<<KV("seconds", PyInt(5))>>))>>),
     PyDict(<<KV("delay", PyInt(5))>>),
     PyDict(<<KV("event", PyStr(<<"e">>)), KV("delay", PyStr(<<>>))>>),
     PyDict(<<KV("event", PyStr(<<"e">>)), KV("stop", PyStr(<<"e">>)), KV("parallel", PyNone)>>)}
    \cup {PyDict(<<KV("service", PyStr(chars))>>) : chars \in ServiceStrings}
    \cup {PyDict(<<KV("service", PyStr(Chars("light") \o <<".">> \o Chars("turn_on"))),
                   KV("target", target)>>) : target \in TargetValues}
    \cup {PyDict(<<KV("delay", PyDict(<<KV("seconds", PyInt(5))>>)), KV("target", PyInt(5))>>),
          PyDict(<<KV("target", PyDict(<<>>)), KV("variables", PyDict(<<>>))>>)}
    \cup {PyDict(<<KV("delay", delay)>>) : delay \in DelayValues}
    \cup {PyDict(<<KV(kind, PyStr(<<"e">>))>>) : kind \in VALID_ACTION_TYPES}

\* how a 'parallel' wrapper is put around an action list
NestShapes == {"alone", "second", "shadowed"}

Nest(shape, inner) ==
    CASE shape = "alone" -> PyList(<<PyDict(<<KV("parallel", inner)>>)>>)
      [] shape = "second" -> PyList(<<A_valid_service, PyDict(<<KV("parallel", inner)>>)>>)
      [] shape = "shadowed" ->
            PyList(<<PyDict(<<KV("parallel", inner), KV("variables", PyDict(<<>>))>>)>>)

\* top-level keys in the order the exploration adds them
KeyOrder == <<"id", "alias", "mode", "trigger", "condition", "action">>

KeyPosition(key) == CHOOSE i \in 1..Len(KeyOrder) : KeyOrder[i] = key

FieldValues(key) ==
    CASE key = "id" -> {PyStr(<<"a", "u", "t", "o", "1">>), PyStr(<<>>), PyInt(7)}
      [] key = "alias" -> {PyStr(<<"a">>), PyInt(5)}
      [] key = "mode" -> {PyStr(Chars("single")), PyStr(<<"b", "o", "g", "u", "s">>), PyList(<<>>)}
      [] key = "trigger" ->
            {PyStr(<<"a", "b", "c">>), PyList(<<T_valid_time>>), PyList(<<T_bad_time, T_bad_platform>>),
             PyList(<<T_unhashable_platform>>)}
      [] key = "condition" -> {PyNone, PyList(<<C_valid_state>>), PyList(<<C_bad_state>>)}
      [] key = "action" ->
            {PyList(<<A_valid_service>>), PyList(<<A_no_dot, A_empty_delay>>), PyList(<<>>),
             PyList(<<A_no_dot, PyDict(<<KV("parallel", PyList(<<A_empty_delay, A_no_dot>>))>>),
                      PyInt(5)>>)}

\* documents that are not a mapping
NonMappingDocuments ==
    {PyNone, PyInt(5), PyStr(<<"a", "b", "c">>), PyStr(<<"v", "a", "l", "i", "d">>), PyList(<<>>), PyList(<<PyStr(Chars("id"))>>)}

\* the scenario documents that are validated repeatedly
ScenarioDocuments ==
    <<PyDict(<<KV("trigger", PyList(<<T_valid_time>>)), KV("action", PyList(<<A_valid_service>>))>>),
      PyDict(<<KV("trigger", PyList(<<T_bad_time, T_bad_platform>>)),
               KV("action", PyList(<<A_no_dot, A_empty_delay>>))>>),
      PyDict(<<KV("id", PyStr(<<"a", "u", "t", "o", "1">>)), KV("mode", PyStr(<<"b", "o", "g", "u", "s">>)),
               KV("action", PyList(<<A_valid_service>>))>>),
      PyDict(<<KV("mode", PyList(<<>>))>>),
      PyNone>>

\* the orders in which a process may iterate VALID_MODES
ModeOrders ==
    {order \in [1..4 -> VALID_MODES] : \A i, j \in 1..4 : i # j => order[i] # order[j]}

\* data keys and the values tried under each
DataKeys == {"brightness", "brightness_pct", "color_temp", "transition", "temperature", "message"}

DataValues(key) ==
    CASE key = "brightness" -> {PyInt(0), PyInt(200), PyInt(255), PyInt(256), PyInt(300), PyStr(<<"a", "b", "c">>)}
      [] key = "brightness_pct" -> {PyInt(0 - 1), PyInt(0), PyInt(100), PyInt(101), PyBool(TRUE)}
      [] key = "color_temp" -> {PyInt(0 - 1), PyInt(0), PyNone}
      [] key = "transition" -> {PyInt(0 - 1), PyInt(0), PyFloat(2), PyList(<<>>)}
      [] key = "temperature" -> {PyInt(0 - 51), PyInt(0 - 50), PyInt(50), PyInt(51), PyStr(<<"a", "b", "c">>)}
      [] key = "message" -> {PyStr(<<"a", "b", "c">>), PyNone}

ServiceCalls ==
    {<<Chars("light"), Chars("turn_on")>>, <<Chars("light"), Chars("turn_off")>>, <<Chars("climate"), Chars("set_temperature")>>,
     <<Chars("climate"), Chars("turn_on")>>, <<Chars("notify"), Chars("notify")>>, <<Chars("notify"), Chars("turn_on")>>,
     <<Chars("switch"), Chars("turn_on")>>}

T_sunset == PyDict(<<KV("platform", PyStr(Chars("sun"))), KV("event", PyStr(Chars("sunset")))>>)

\* values tried under each top-level key of a document that is summarized
SummaryValues(key) ==
    CASE key = "trigger" ->
            FieldValues(key)
            \cup {PyNone, PyList(<<>>), PyDict(<<KV("platform", PyStr(Chars("time")))>>),
                  PyList(<<T_valid_time, T_sunset>>), PyList(<<T_valid_time, T_bad_time>>),
                  PyList(<<PyDict(<<KV("at", PyStr(<<"1", "0", ":", "0", "0">>))>>), T_sunset>>),
                  PyList(<<PyDict(<<KV("platform", PyInt(5))>>)>>),
                  PyList(<<T_valid_time, PyInt(5)>>)}
      [] key = "condition" ->
            FieldValues(key)
            \cup {PyList(<<PyDict(<<KV("entity_id", PyStr(<<"e">>))>>)>>),
                  PyList(<<C_valid_state, PyStr(<<"a", "b", "c">>)>>),
                  PyList(<<C_valid_state, C_bad_state, PyDict(<<KV("condition", PyStr(Chars("time")))>>)>>)}
      [] key = "action" ->
            FieldValues(key)
            \cup {PyInt(5), A_valid_service, A_empty_delay,
                  PyList(<<A_empty_delay, A_valid_service, A_no_dot>>),
                  PyList(<<PyDict(<<KV("service", PyInt(5))>>)>>),
                  PyList(<<A_valid_service, PyInt(5)>>),
                  PyList(<<PyStr(<<"a", "b", "c">>), PyStr(Chars("service"))>>)}
      [] OTHER -> FieldValues(key)

\* a YAML file: whether yaml.safe_load succeeds on it, and the document it gives
YamlFile(document) == [loads |-> TRUE, document |-> document]

BrokenYaml == [loads |-> FALSE, document |-> PyNone]

\* the files a directory may hold: one that does not parse, an empty one, a
\* list, a mapping that is no automation, a valid automation, two invalid
\* ones, and one whose mode makes the validator raise
ScriptFiles ==
    {BrokenYaml,
     YamlFile(PyNone),
     YamlFile(PyList(<<PyStr(Chars("id"))>>)),
     YamlFile(PyDict(<<KV("alias", PyStr(<<"a">>))>>)),
     YamlFile(ScenarioDocuments[1]),
     YamlFile(ScenarioDocuments[2]),
     YamlFile(ScenarioDocuments[3]),
     YamlFile(PyDict(<<KV("id", PyStr(<<"a", "u", "t", "o", "1">>)), KV("mode", PyList(<<>>))>>))}

----------------------------------------------------------------------------
(* The harness: it builds an argument, then calls the function under test *)

ScenarioIds == 1..Len(ScenarioDocuments)

\* the functions that are handed the whole document
ConfigFunctions ==
    {"validate_automation_config", "assert_valid_automation", "get_automation_summary",
     "load_and_validate_automation"}

\* VALID_MODES in the order the source lists it; stands for the order in runs
\* that never iterate the set
SourceModeOrder == <<Chars("single"), Chars("restart"), Chars("queued"), Chars("parallel")>>

TimeIdle == time_str = PyNone /\ time_result = "pending"

SectionIdle == sec_arg = PyNone /\ sec_depth = 0 /\ sec_ret = NoCall

ConfigIdle == config = PyNone /\ result = NoResult

RepeatIdle ==
    /\ history = [i \in ScenarioIds |-> NoResult]
    /\ calls = [i \in ScenarioIds |-> 0]

ServiceIdle ==
    svc_domain = PyNone /\ svc_service = PyNone /\ svc_data = PyNone /\ svc_ret = NoResult

HelpersIdle == asserted = NoAssert /\ summary = NoSummary

TablesLoaded == tables = SourceTables

\* the script before main has run, with no files found yet
ScriptIdle == script = NotStarted

(* _is_valid_time_string *)

InitTime ==
    /\ under_test = "_is_valid_time_string"
    /\ time_str \in TimeSeeds
    /\ time_result = "pending"
    /\ modes_order = SourceModeOrder
    /\ SectionIdle /\ ConfigIdle /\ RepeatIdle /\ ServiceIdle /\ HelpersIdle /\ TablesLoaded /\ ScriptIdle

TypeChar(c) ==
    /\ under_test = "_is_valid_time_string"
    /\ time_result = "pending"
    /\ time_str.t = "str"
    /\ Len(time_str.s) < MaxTimeLen
    /\ time_str' = PyStr(Append(time_str.s, c))
    /\ UNCHANGED <<under_test, time_result, sec_arg, sec_depth, sec_ret, config, result,
                   history, calls, modes_order, svc_domain, svc_service, svc_data, svc_ret,
                   tables, asserted, summary, script>>

CheckTime ==
    /\ under_test = "_is_valid_time_string"
    /\ time_result = "pending"
    /\ time_result' = IF _is_valid_time_string(time_str) THEN "True" ELSE "False"
    /\ UNCHANGED <<under_test, time_str, sec_arg, sec_depth, sec_ret, config, result,
                   history, calls, modes_order, svc_domain, svc_service, svc_data, svc_ret,
                   tables, asserted, summary, script>>

NextTime == (\E c \in TimeAlphabet : TypeChar(c)) \/ CheckTime

SpecTime == InitTime /\ [][NextTime]_vars

(* validate_triggers, validate_conditions, validate_actions *)

SectionValidators == {"validate_triggers", "validate_conditions", "validate_actions"}

ElementsFor(validator) ==
    CASE validator = "validate_triggers" -> TriggerElements
      [] validator = "validate_conditions" -> ConditionElements
      [] validator = "validate_actions" -> ActionElements
      [] OTHER -> {}

InitSections ==
    /\ under_test \in SectionValidators
    /\ sec_arg \in NonSequenceInputs \cup {PyList(<<>>)}
    /\ sec_depth = 0
    /\ sec_ret = NoCall
    /\ modes_order = SourceModeOrder
    /\ TimeIdle /\ ConfigIdle /\ RepeatIdle /\ ServiceIdle /\ HelpersIdle /\ TablesLoaded /\ ScriptIdle

\* the caller appends an element to a list that is not wrapped yet
AddElement(e) ==
    /\ under_test \in SectionValidators
    /\ sec_ret = NoCall
    /\ sec_arg.t = "list"
    /\ sec_depth = 0
    /\ Len(sec_arg.list) < MaxItems
    /\ sec_arg' = PyList(Append(sec_arg.list, e))
    /\ UNCHANGED <<under_test, time_str, time_result, sec_depth, sec_ret, config, result,
                   history, calls, modes_order, svc_domain, svc_service, svc_data, svc_ret,
                   tables, asserted, summary, script>>

\* the caller puts the argument under the 'parallel' key of an action of a new list
NestParallel(shape) ==
    /\ under_test = "validate_actions"
    /\ sec_ret = NoCall
    /\ sec_depth < MaxDepth
    /\ sec_arg' = Nest(shape, sec_arg)
    /\ sec_depth' = sec_depth + 1
    /\ UNCHANGED <<under_test, time_str, time_result, sec_ret, config, result,
                   history, calls, modes_order, svc_domain, svc_service, svc_data, svc_ret,
                   tables, asserted, summary, script>>

ValidateTriggers ==
    /\ under_test = "validate_triggers"
    /\ sec_ret = NoCall
    /\ sec_ret' = validate_triggers(sec_arg)
    /\ UNCHANGED <<under_test, time_str, time_result, sec_arg, sec_depth, config, result,
                   history, calls, modes_order, svc_domain, svc_service, svc_data, svc_ret,
                   tables, asserted, summary, script>>

ValidateConditions ==
    /\ under_test = "validate_conditions"
    /\ sec_ret = NoCall
    /\ sec_ret' = validate_conditions(sec_arg)
    /\ UNCHANGED <<under_test, time_str, time_result, sec_arg, sec_depth, config, result,
                   history, calls, modes_order, svc_domain, svc_service, svc_data, svc_ret,
                   tables, asserted, summary, script>>

\* the call with the nested lists taken out of their actions (action.pop('parallel'))
ValidateActions_popping_parallel ==
    /\ under_test = "validate_actions"
    /\ sec_ret = NoCall
    /\ sec_ret' = validate_actions(sec_arg)
    /\ sec_arg' = IF sec_arg.t # "list" THEN sec_arg
                  ELSE PyList([i \in 1..Len(sec_arg.list) |->
                            IF sec_arg.list[i].t = "dict" /\ action_type(sec_arg.list[i]) = "parallel"
                            THEN PyDict(SelectSeq(sec_arg.list[i].dict, LAMBDA kv : kv.k # "parallel"))
                            ELSE sec_arg.list[i]])
    /\ UNCHANGED <<under_test, time_str, time_result, sec_depth, config, result,
                   history, calls, modes_order, svc_domain, svc_service, svc_data, svc_ret,
                   tables, asserted, summary, script>>

ValidateActions ==
    /\ under_test = "validate_actions"
    /\ sec_ret = NoCall
    /\ sec_ret' = validate_actions(sec_arg)
    /\ UNCHANGED <<under_test, time_str, time_result, sec_arg, sec_depth, config, result,
                   history, calls, modes_order, svc_domain, svc_service, svc_data, svc_ret,
                   tables, asserted, summary, script>>

NextSections ==
    \/ \E e \in ElementsFor(under_test) : AddElement(e)
    \/ \E shape \in NestShapes : NestParallel(shape)
    \/ ValidateTriggers
    \/ ValidateConditions
    \/ ValidateActions

SpecSections == InitSections /\ [][NextSections]_vars

(* validate_automation_config and validate_service_data *)

InitConfig ==
    /\ under_test = "validate_automation_config"
    /\ config \in NonMappingDocuments \cup {PyDict(<<>>)}
    /\ result = NoResult
    /\ modes_order \in ModeOrders
    /\ TimeIdle /\ SectionIdle /\ RepeatIdle /\ ServiceIdle /\ HelpersIdle /\ TablesLoaded /\ ScriptIdle

InitService ==
    /\ under_test = "validate_service_data"
    /\ \E call \in ServiceCalls : svc_domain = PyStr(call[1]) /\ svc_service = PyStr(call[2])
    /\ svc_data \in {PyDict(<<>>), PyNone}
    /\ svc_ret = NoResult
    /\ modes_order = SourceModeOrder
    /\ TimeIdle /\ SectionIdle /\ ConfigIdle /\ RepeatIdle /\ HelpersIdle /\ TablesLoaded /\ ScriptIdle

\* the loader adds a top-level key to the document
SetField(key, value) ==
    /\ under_test \in ConfigFunctions
    /\ result = NoResult /\ asserted = NoAssert /\ summary = NoSummary
    /\ config.t = "dict"
    /\ \A i \in 1..Len(config.dict) : KeyPosition(config.dict[i].k) < KeyPosition(key)
    /\ config' = SetKey(config, key, value)
    /\ UNCHANGED <<under_test, time_str, time_result, sec_arg, sec_depth, sec_ret, result,
                   history, calls, modes_order, svc_domain, svc_service, svc_data, svc_ret,
                   tables, asserted, summary, script>>

Validate ==
    /\ under_test = "validate_automation_config"
    /\ result = NoResult
    /\ result' = validate_automation_config(config)
    /\ UNCHANGED <<under_test, time_str, time_result, sec_arg, sec_depth, sec_ret, config,
                   history, calls, modes_order, svc_domain, svc_service, svc_data, svc_ret,
                   tables, asserted, summary, script>>

\* the caller adds a key to the service data
SetData(key, value) ==
    /\ under_test = "validate_service_data"
    /\ svc_ret = NoResult
    /\ svc_data.t = "dict"
    /\ Len(svc_data.dict) < MaxDataKeys
    /\ ~HasKey(svc_data, key)
    /\ svc_data' = SetKey(svc_data, key, value)
    /\ UNCHANGED <<under_test, time_str, time_result, sec_arg, sec_depth, sec_ret, config, result,
                   history, calls, modes_order, svc_domain, svc_service, svc_ret,
                   tables, asserted, summary, script>>

ValidateServiceData ==
    /\ under_test = "validate_service_data"
    /\ svc_ret = NoResult
    /\ svc_ret' = validate_service_data(svc_domain, svc_service, svc_data)
    /\ UNCHANGED <<under_test, time_str, time_result, sec_arg, sec_depth, sec_ret, config, result,
                   history, calls, modes_order, svc_domain, svc_service, svc_data,
                   tables, asserted, summary, script>>

Init == InitConfig \/ InitService

Next ==
    \/ \E key \in {KeyOrder[i] : i \in 1..Len(KeyOrder)} :
            \E value \in FieldValues(key) : SetField(key, value)
    \/ Validate
    \/ \E key \in DataKeys : \E value \in DataValues(key) : SetData(key, value)
    \/ ValidateServiceData

Spec == Init /\ [][Next]_vars

(* repeated calls of validate_automation_config in one process *)

InitRepeat ==
    /\ under_test = "validate_automation_config"
    /\ config = PyNone
    /\ result = NoResult
    /\ history = [i \in ScenarioIds |-> NoResult]
    /\ calls = [i \in ScenarioIds |-> 0]
    /\ modes_order \in ModeOrders
    /\ TimeIdle /\ SectionIdle /\ ServiceIdle /\ HelpersIdle /\ TablesLoaded /\ ScriptIdle

\* one more call, on scenario document i
ValidateScenario(i) ==
    /\ calls[i] < MaxCalls
    /\ config' = ScenarioDocuments[i]
    /\ result' = validate_automation_config(ScenarioDocuments[i])
    /\ history' = [history EXCEPT ![i] = IF calls[i] = 0 THEN result' ELSE @]
    /\ calls' = [calls EXCEPT ![i] = @ + 1]
    /\ UNCHANGED <<under_test, time_str, time_result, sec_arg, sec_depth, sec_ret,
                   modes_order, svc_domain, svc_service, svc_data, svc_ret,
                   tables, asserted, summary, script>>

NextRepeat == \E i \in ScenarioIds : ValidateScenario(i)

SpecRepeat == InitRepeat /\ [][NextRepeat]_vars

(* validate_service_data on its own *)

NextService ==
    \/ \E key \in DataKeys : \E value \in DataValues(key) : SetData(key, value)
    \/ ValidateServiceData

SpecService == InitService /\ [][NextService]_vars

(* assert_valid_automation and get_automation_summary *)

InitHelpers ==
    /\ under_test \in {"assert_valid_automation", "get_automation_summary"}
    /\ config \in NonMappingDocuments \cup {PyDict(<<>>)}
    /\ result = NoResult
    /\ asserted = NoAssert
    /\ summary = NoSummary
    /\ modes_order \in IF under_test = "assert_valid_automation"
                       THEN ModeOrders ELSE {SourceModeOrder}
    /\ TimeIdle /\ SectionIdle /\ RepeatIdle /\ ServiceIdle /\ TablesLoaded /\ ScriptIdle

AssertValid ==
    /\ under_test = "assert_valid_automation"
    /\ asserted = NoAssert
    /\ asserted' = assert_valid_automation(config)
    /\ UNCHANGED <<under_test, time_str, time_result, sec_arg, sec_depth, sec_ret, config, result,
                   history, calls, modes_order, svc_domain, svc_service, svc_data, svc_ret,
                   tables, summary, script>>

\* one call; the order in which the sets are joined is the interpreter's choice
Summarize ==
    /\ under_test = "get_automation_summary"
    /\ summary = NoSummary
    /\ \E outcome \in get_automation_summary(config) : summary' = outcome
    /\ UNCHANGED <<under_test, time_str, time_result, sec_arg, sec_depth, sec_ret, config, result,
                   history, calls, modes_order, svc_domain, svc_service, svc_data, svc_ret,
                   tables, asserted, script>>

NextHelpers ==
    \/ \E key \in {KeyOrder[i] : i \in 1..Len(KeyOrder)} :
            \E value \in IF under_test = "get_automation_summary"
                         THEN SummaryValues(key) ELSE FieldValues(key) :
                SetField(key, value)
    \/ AssertValid
    \/ Summarize

SpecHelpers == InitHelpers /\ [][NextHelpers]_vars

(* load_and_validate_automation of tests/examples/validation_example.py *)

InitPipeline ==
    /\ under_test = "load_and_validate_automation"
    /\ config \in NonMappingDocuments \cup {PyDict(<<>>)}
    /\ result = NoResult
    /\ asserted = NoAssert
    /\ summary = NoSummary
    /\ modes_order = SourceModeOrder
    /\ TimeIdle /\ SectionIdle /\ RepeatIdle /\ ServiceIdle /\ TablesLoaded /\ ScriptIdle

\* lines 30-33 of the example: the summary is taken only when the assertion
\* did not raise
LoadAndValidate ==
    /\ under_test = "load_and_validate_automation"
    /\ asserted = NoAssert
    /\ asserted' = assert_valid_automation(config)
    /\ IF asserted'.exc = "none"
       THEN \E outcome \in get_automation_summary(config) : summary' = outcome
       ELSE summary' = NoSummary
    /\ UNCHANGED <<under_test, time_str, time_result, sec_arg, sec_depth, sec_ret, config, result,
                   history, calls, modes_order, svc_domain, svc_service, svc_data, svc_ret,
                   tables, script>>

NextPipeline ==
    \/ \E key \in {KeyOrder[i] : i \in 1..Len(KeyOrder)} :
            \E value \in SummaryValues(key) : SetField(key, value)
    \/ LoadAndValidate

SpecPipeline == InitPipeline /\ [][NextPipeline]_vars

(* main of scripts/validate_automations.py *)

InitScript ==
    /\ under_test = "main"
    /\ script = NotStarted
    /\ modes_order = SourceModeOrder
    /\ TimeIdle /\ SectionIdle /\ ConfigIdle /\ RepeatIdle /\ ServiceIdle /\ HelpersIdle
    /\ TablesLoaded

\* the directory holds one more YAML file
AddFile(file) ==
    /\ under_test = "main"
    /\ script.pc = "collect"
    /\ Len(script.yaml_files) < MaxFiles
    /\ script' = [script EXCEPT !.yaml_files = Append(@, file)]
    /\ UNCHANGED <<under_test, time_str, time_result, sec_arg, sec_depth, sec_ret, config, result,
                   history, calls, modes_order, svc_domain, svc_service, svc_data, svc_ret,
                   tables, asserted, summary>>

\* lines 71-82: main lists the files; without any it exits with status 0
StartMain ==
    /\ under_test = "main"
    /\ script.pc = "collect"
    /\ script' = IF Len(script.yaml_files) = 0
                 THEN [script EXCEPT !.pc = "done", !.exit_status = "0"]
                 ELSE [script EXCEPT !.pc = "loop"]
    /\ UNCHANGED <<under_test, time_str, time_result, sec_arg, sec_depth, sec_ret, config, result,
                   history, calls, modes_order, svc_domain, svc_service, svc_data, svc_ret,
                   tables, asserted, summary>>

\* lines 84-91: one turn of the loop; an exception that leaves validate_file
\* is not caught and ends the process with status 1
ValidateNextFile ==
    /\ under_test = "main"
    /\ script.pc = "loop"
    /\ script.processed < Len(script.yaml_files)
    /\ \E outcome \in validate_file(script.yaml_files[script.processed + 1]) :
            script' = IF outcome.exc # "none"
                      THEN [script EXCEPT !.pc = "done", !.exit_status = "1"]
                      ELSE count_result(script, outcome.value)
    /\ UNCHANGED <<under_test, time_str, time_result, sec_arg, sec_depth, sec_ret, config, result,
                   history, calls, modes_order, svc_domain, svc_service, svc_data, svc_ret,
                   tables, asserted, summary>>

\* line 100: sys.exit(1 if invalid_count > 0 else 0)
ExitMain ==
    /\ under_test = "main"
    /\ script.pc = "loop"
    /\ script.processed = Len(script.yaml_files)
    /\ script' = [script EXCEPT !.pc = "done",
                                !.exit_status = IF script.invalid_count > 0 THEN "1" ELSE "0"]
    /\ UNCHANGED <<under_test, time_str, time_result, sec_arg, sec_depth, sec_ret, config, result,
                   history, calls, modes_order, svc_domain, svc_service, svc_data, svc_ret,
                   tables, asserted, summary>>

NextScript ==
    \/ \E file \in ScriptFiles : AddFile(file)
    \/ StartMain
    \/ ValidateNextFile
    \/ ExitMain

SpecScript == InitScript /\ [][NextScript]_vars

(* every function that is handed a document, in one process *)

InitFrame ==
    \/ InitSections
    \/ InitConfig /\ modes_order = SourceModeOrder
    \/ InitService
    \/ InitHelpers /\ under_test = "get_automation_summary"

NextFrame ==
    \/ NextSections
    \/ Next
    \/ \E key \in {KeyOrder[i] : i \in 1..Len(KeyOrder)} :
            \E value \in SummaryValues(key) : SetField(key, value)
    \/ Summarize

SpecFrame == InitFrame /\ [][NextFrame]_vars


----------------------------------------------------------------------------
(* Properties of validate_automation_config and validate_service_data,     *)
(* checked under Spec                                                      *)

E_missing_required == <<"Automation must have either 'trigger' or 'id' field">>

E_missing_action == <<"Automation must have 'action' field">>

\* number of occurrences of error e in the list errors
Count(errors, e) == Cardinality({i \in 1..Len(errors) : errors[i] = e})

\* every error of part occurs in whole at least as often as in part
AllAppear(part, whole) ==
    \A i \in 1..Len(part) : Count(whole, part[i]) >= Count(part, part[i])

\* the call on the document has been made and the document is a mapping
ValidatedMapping == result.exc # "pending" /\ config.t = "dict"

\* C1: validate_automation_config is total: for a config of any type and any
\* value types under its keys the call returns (is_valid, errors) and never
\* raises.
ValidationIsTotal == result.exc \in {"pending", "none"}

\* C2: whenever validate_automation_config or validate_service_data returns,
\* the boolean flag is true if and only if the returned error list is empty.
FlagIffNoErrors ==
    /\ result.exc = "none" => (result.is_valid <=> Len(result.errors) = 0)
    /\ svc_ret.exc = "none" => (svc_ret.is_valid <=> Len(svc_ret.errors) = 0)

\* C2 witness: a call returned a non-empty error list with the flag false
FlagWitness == result.exc = "none" /\ Len(result.errors) > 1 /\ ~result.is_valid

\* C3: for every mapping config the missing-trigger-or-id error is reported
\* exactly when neither 'trigger' nor 'id' is present, and adding either key
\* with any value removes that error and no other error already reported.
MissingRequiredExactly ==
    ValidatedMapping =>
        LET neither == ~HasKey(config, "trigger") /\ ~HasKey(config, "id")
        IN  /\ result.exc = "none"
            /\ (Count(result.errors, E_missing_required) = 1) <=> neither
            /\ Count(result.errors, E_missing_required) <= 1
            /\ neither =>
                \A key \in {"trigger", "id"} : \A value \in FieldValues(key) :
                    LET after == validate_automation_config(SetKey(config, key, value))
                    IN  /\ after.exc = "none"
                        /\ Count(after.errors, E_missing_required) = 0
                        /\ AllAppear(SelectSeq(result.errors,
                                               LAMBDA e : e # E_missing_required),
                                     after.errors)

\* C4: for every mapping config without an 'action' key the call returns
\* is_valid = False with exactly one missing-'action' error, whatever the other
\* fields contain; with 'action' present that error is never emitted and the
\* errors of the action list are reported instead.
MissingActionFatal ==
    ValidatedMapping =>
        /\ result.exc = "none"
        /\ ~HasKey(config, "action") =>
                ~result.is_valid /\ Count(result.errors, E_missing_action) = 1
        /\ HasKey(config, "action") =>
                /\ Count(result.errors, E_missing_action) = 0
                /\ AllAppear(validate_actions(GetKey(config, "action")).errors, result.errors)

\* the errors a section validator returns for the value under key, if the key
\* is present and the validator returns
SectionErrors(cfg, key) ==
    IF ~HasKey(cfg, key) THEN <<>>
    ELSE CASE key = "trigger" -> validate_triggers(GetKey(cfg, key)).errors
           [] key = "condition" -> validate_conditions(GetKey(cfg, key)).errors
           [] key = "action" -> validate_actions(GetKey(cfg, key)).errors

\* number of elements of the list under key that are defective on their own
DefectiveElements(cfg, key) ==
    IF ~HasKey(cfg, key) \/ GetKey(cfg, key).t # "list" THEN 0
    ELSE LET elems == GetKey(cfg, key).list
         IN  Cardinality({i \in 1..Len(elems) :
                CASE key = "trigger" -> check_trigger(i - 1, elems[i]) # Returned(<<>>)
                  [] key = "condition" -> check_condition(i - 1, elems[i]) # Returned(<<>>)
                  [] key = "action" -> check_action(i - 1, elems[i]) # <<>>})

\* C5: validate_automation_config never short-circuits across sections: every
\* error the three list validators return for the config's values appears in
\* the result regardless of earlier errors, and a document with k defective
\* elements yields at least k errors.
NoShortCircuit ==
    ValidatedMapping =>
        /\ result.exc = "none"
        /\ \A key \in {"trigger", "condition", "action"} :
                AllAppear(SectionErrors(config, key), result.errors)
        /\ Len(result.errors) >= DefectiveElements(config, "trigger")
                                 + DefectiveElements(config, "condition")
                                 + DefectiveElements(config, "action")

----------------------------------------------------------------------------
(* Properties of the list validators, checked under SpecSections *)

\* the list validator under test has returned or raised
SectionCalled == sec_ret.exc # "pending"

\* the opening of the type error of each list validator
TypeErrorOpening ==
    CASE under_test = "validate_triggers" -> "Triggers must be a list, got "
      [] under_test = "validate_conditions" -> "Conditions must be a list, got "
      [] under_test = "validate_actions" -> "Actions must be a list, got "
      [] OTHER -> ""

\* C6: for every input that is not a sequence, each of validate_triggers,
\* validate_conditions and validate_actions returns exactly one error, which
\* names the actual type of the input; no element-level check is attempted.
NonSequenceOneError ==
    (SectionCalled /\ sec_arg.t # "list") =>
        /\ sec_ret.exc = "none"
        /\ sec_ret.errors = << <<TypeErrorOpening, sec_arg.t>> >>

\* C6 witness: validate_triggers was handed a single trigger mapping
NonSequenceWitness ==
    /\ under_test = "validate_triggers"
    /\ sec_arg = PyDict(<<KV("platform", PyStr(Chars("time")))>>)
    /\ sec_ret = Returned(<< <<"Triggers must be a list, got ", "dict">> >>)

\* the marker keys in the documented priority order
MarkerOrder ==
    <<"service", "delay", "wait_template", "repeat", "choose", "if", "stop",
      "variables", "parallel", "event">>

MarkerKeys == {MarkerOrder[p] : p \in 1..Len(MarkerOrder)}

\* the first marker key of MarkerOrder present in the mapping, "none" without one
FirstMarker(action) ==
    IF \A p \in 1..Len(MarkerOrder) : ~HasKey(action, MarkerOrder[p]) THEN "none"
    ELSE MarkerOrder[CHOOSE p \in 1..Len(MarkerOrder) :
                        /\ HasKey(action, MarkerOrder[p])
                        /\ \A q \in 1..(p - 1) : ~HasKey(action, MarkerOrder[q])]

\* the nested action lists of an action list: for each, the indices of the
\* 'parallel' actions that lead to it, outermost first
RECURSIVE NestedLists(_)
NestedLists(actions) ==
    IF actions.t # "list" THEN {}
    ELSE UNION {
            LET a == actions.list[i]
            IN  IF a.t = "dict" /\ FirstMarker(a) = "parallel" /\ GetKey(a, "parallel").t = "list"
                THEN {[path |-> <<i - 1>>, inner |-> GetKey(a, "parallel")]}
                     \cup {[path |-> <<i - 1>> \o r.path, inner |-> r.inner] :
                                r \in NestedLists(GetKey(a, "parallel"))}
                ELSE {}
            : i \in 1..Len(actions.list)}

\* the provenance chain of a nesting path: index and tag of every level
RECURSIVE Provenance(_)
Provenance(path) ==
    IF Len(path) = 0 THEN <<>>
    ELSE <<"Action ", ToString(path[1]), " ", "parallel:", " ">> \o Provenance(Tail(path))

\* number of 'parallel:' tags in an error string
TagCount(e) == Cardinality({p \in 1..Len(e) : e[p] = "parallel:"})

\* the pieces of run occur in e one after the other
ContainsRun(e, run) ==
    \E start \in 1..(Len(e) - Len(run) + 1) : SubSeq(e, start, start + Len(run) - 1) = run

\* every error of a list nested N levels deep is returned by the top-level
\* call behind the index and tag of each of the N levels
ProvenanceKept ==
    \A r \in NestedLists(sec_arg) :
        LET inner_errors == validate_actions(r.inner).errors
        IN  \A k \in 1..Len(inner_errors) :
                \E j \in 1..Len(sec_ret.errors) :
                    /\ sec_ret.errors[j] = Provenance(r.path) \o inner_errors[k]
                    /\ TagCount(sec_ret.errors[j]) = Len(r.path) + TagCount(inner_errors[k])

\* the service action 'turnon' nested three 'parallel' levels deep
ThreeDeep ==
    Nest("alone", Nest("alone", Nest("alone", PyList(<<A_no_dot>>))))

E_no_dot ==
    <<"Action ", "0", " service '">> \o <<"t", "u", "r", "n", "o", "n">> \o <<"' ", "must be in format 'domain.service'">>

ActionsReturned == under_test = "validate_actions" /\ sec_ret.exc = "none"

\* C7 as stated: an error N 'parallel' levels deep is returned prefixed with
\* N 'parallel:' tags, and for 'turnon' three levels deep the error string
\* contains 'parallel: parallel: parallel:' before the format message.
ParallelTagsAdjacent ==
    ActionsReturned =>
        /\ ProvenanceKept
        /\ sec_arg = ThreeDeep =>
            \E j \in 1..Len(sec_ret.errors) :
                ContainsRun(sec_ret.errors[j],
                            <<"parallel:", " ", "parallel:", " ", "parallel:", " ">>)

\* C7 amended: an error N 'parallel' levels deep is returned behind N
\* 'Action <index> parallel:' prefixes, one per level, outermost first; for
\* 'turnon' three levels deep the error is 'Action 0 parallel: Action 0
\* parallel: Action 0 parallel: Action 0 service 'turnon' must be in format
\* 'domain.service''.
ParallelProvenance ==
    ActionsReturned =>
        /\ ProvenanceKept
        /\ sec_arg = ThreeDeep =>
            sec_ret.errors = << <<"Action ", "0", " ", "parallel:", " ",
                                  "Action ", "0", " ", "parallel:", " ",
                                  "Action ", "0", " ", "parallel:", " ">> \o E_no_dot >>

\* C7 witness: the three-level document was validated and its error came back
ThreeDeepWitness ==
    ActionsReturned /\ sec_arg = ThreeDeep /\ Len(sec_ret.errors) = 1 /\ sec_depth = 3

\* the mapping with every marker key but one removed
WithOnly(action, marker) ==
    PyDict(SelectSeq(action.dict, LAMBDA kv : kv.k = marker \/ kv.k \notin MarkerKeys))

\* the errors the top-level call returned for element i (zero-based)
TopErrors(i) ==
    SelectSeq(sec_ret.errors, LAMBDA e : Len(e) >= 2 /\ e[1] = "Action " /\ e[2] = ToString(i))

UncheckedKinds == {"wait_template", "repeat", "choose", "if", "stop", "variables", "event"}

----------------------------------------------------------------------------
(* Properties of _is_valid_time_string, checked under SpecTime *)

\* a component that is a decimal number: an optional sign, then digits only
IsNumeric(part) ==
    LET digits == IF Len(part) > 0 /\ part[1] \in {"+", "-"} THEN Tail(part) ELSE part
    IN  Len(digits) > 0 /\ \A p \in 1..Len(digits) : IsDigit(digits[p])

\* the number a numeric component denotes
NumericValue(part) ==
    IF part[1] = "-" THEN 0 - DecimalValue(Tail(part))
    ELSE IF part[1] = "+" THEN DecimalValue(Tail(part))
    ELSE DecimalValue(part)

\* 2 or 3 colon-separated numeric components within the ranges of a time
IsTimeOfDay(time) ==
    /\ time.t = "str"
    /\ LET parts == Split(time.s, ":")
       IN  /\ Len(parts) \in {2, 3}
           /\ \A p \in 1..Len(parts) : IsNumeric(parts[p])
           /\ 0 <= NumericValue(parts[1]) /\ NumericValue(parts[1]) <= 23
           /\ \A p \in 2..Len(parts) :
                0 <= NumericValue(parts[p]) /\ NumericValue(parts[p]) <= 59

\* C9: _is_valid_time_string returns true exactly for strings of 2 or 3
\* colon-separated numeric components with hours in [0,23], minutes and
\* seconds in [0,59], and false for a non-numeric or empty component, another
\* component count, an out-of-range component and every non-string value.
TimeStringExactlyNumeric ==
    time_result # "pending" => (time_result = "True" <=> IsTimeOfDay(time_str))

----------------------------------------------------------------------------
(* Properties of repeated calls, checked under SpecRepeat *)

----------------------------------------------------------------------------
(* Properties of every function that is handed a document, checked under   *)
(* SpecFrame                                                               *)

\* this step is a call: one of the outcomes was filled in
CallMade ==
    result' # result \/ sec_ret' # sec_ret \/ svc_ret' # svc_ret \/ summary' # summary

\* C11: no validator or summarizer call modifies its argument or the taxonomy
\* tables: over a call of validate_automation_config, validate_triggers,
\* validate_conditions, validate_actions (recursion into 'parallel' lists
\* included), validate_service_data or get_automation_summary the document,
\* every mapping and sequence nested in it and the three tables stay as they
\* were.
CallsKeepArgumentsAndTables ==
    [][CallMade => /\ config' = config
                   /\ sec_arg' = sec_arg
                   /\ svc_data' = svc_data
                   /\ tables' = tables
                   /\ tables' = SourceTables]_vars

\* C11 witness: validate_actions has returned the errors of a list nested two
\* 'parallel' levels deep
NestedCallWitness ==
    /\ ActionsReturned
    /\ sec_depth = 2
    /\ \E j \in 1..Len(sec_ret.errors) : TagCount(sec_ret.errors[j]) = 2

----------------------------------------------------------------------------
(* Properties of assert_valid_automation and get_automation_summary,       *)
(* checked under SpecHelpers                                               *)

\* C12: assert_valid_automation raises ValidationError if and only if
\* validate_automation_config returns is_valid = False for the same config;
\* the message carries every error string, one per line after the heading, in
\* validation order, and for a valid config the call returns without raising.
AssertRaisesIffInvalid ==
    asserted.exc # "pending" =>
        \A outcome \in {validate_automation_config(config)} :
            \A lines \in {Split(asserted.message, "\n")} :
                /\ asserted.exc = "ValidationError"
                        <=> (outcome.exc = "none" /\ ~outcome.is_valid)
                /\ asserted.exc = "ValidationError" =>
                        /\ Len(lines) = Len(outcome.errors) + 1
                        /\ \A k \in 1..Len(outcome.errors) :
                                lines[k + 1] = <<"  - ">> \o outcome.errors[k]
                /\ (outcome.exc = "none" /\ outcome.is_valid) => asserted.exc = "none"

\* C12 witness: the wrapper raised a ValidationError whose message lists
\* three or more errors
AssertWitness ==
    /\ asserted.exc = "ValidationError"
    /\ Len(Split(asserted.message, "\n")) >= 4

----------------------------------------------------------------------------
(* Further properties of the list validators, checked under SpecSections   *)

\* a string of the shape domain.service_name: the text before its first '.'
\* and the text after it are both non-empty
IsDomainService(value) ==
    /\ value.t = "str"
    /\ \E dot \in 1..Len(value.s) :
        /\ value.s[dot] = "."
        /\ \A p \in 1..(dot - 1) : value.s[p] # "."
        /\ dot > 1
        /\ dot < Len(value.s)

\* the service-format errors among the errors returned for element i
ServiceFormatErrors(i) ==
    SelectSeq(TopErrors(i),
              LAMBDA e : Len(e) >= 3 /\ e[3] \in {" service must be a string", " service '",
                                                  " has invalid service format: '"})

\* C13: for an action classified as 'service', validate_actions emits no
\* service-format error if and only if the value is a string of the shape
\* domain.service_name (a '.' with a non-empty half on each side); a
\* non-string, a string without '.', and a string with an empty domain or
\* service name each yield exactly one service error for that action.
ServiceShapeExactly ==
    (ActionsReturned /\ sec_arg.t = "list") =>
        \A p \in 1..Len(sec_arg.list) :
            LET a == sec_arg.list[p]
            IN  (a.t = "dict" /\ FirstMarker(a) = "service") =>
                    /\ Len(ServiceFormatErrors(p - 1)) = 0
                            <=> IsDomainService(GetKey(a, "service"))
                    /\ ~IsDomainService(GetKey(a, "service"))
                            => Len(ServiceFormatErrors(p - 1)) = 1

\* C13 witness: the services '.' and 'x.' were validated and each got its one
\* format error
ServiceShapeWitness ==
    /\ ActionsReturned
    /\ sec_arg = PyList(<<PyDict(<<KV("service", PyStr(<<".">>))>>),
                          PyDict(<<KV("service", PyStr(<<"x", ".">>))>>)>>)
    /\ Len(sec_ret.errors) = 2

----------------------------------------------------------------------------
(* Properties of validate_service_data, checked under SpecService          *)

\* validate_service_data(domain, service, ...) has been called on a mapping
ServiceDataCalled(domain, service) ==
    /\ svc_domain = PyStr(Chars(domain))
    /\ svc_service = PyStr(Chars(service))
    /\ svc_data.t = "dict"
    /\ svc_ret # NoResult

\* value is an int, a float or a bool (a bool is an int) within low..high
NumberWithin(value, low, high) ==
    /\ value.t \in {"int", "float", "bool"}
    /\ low <= value.n
    /\ value.n <= high

\* value is an int, a float or a bool that is at least low
NumberAtLeast(value, low) ==
    /\ value.t \in {"int", "float", "bool"}
    /\ low <= value.n

\* the key is present in the data of light.turn_on and breaks its limit
OffendingLightKey(data, key) ==
    /\ HasKey(data, key)
    /\ CASE key = "brightness" -> ~NumberWithin(GetKey(data, key), 0, 255)
         [] key = "brightness_pct" -> ~NumberWithin(GetKey(data, key), 0, 100)
         [] key = "color_temp" -> ~NumberAtLeast(GetKey(data, key), 0)
         [] key = "transition" -> ~NumberAtLeast(GetKey(data, key), 0)

LightKeys == {"brightness", "brightness_pct", "color_temp", "transition"}

\* C14: validate_service_data('light', 'turn_on', data) emits one error per
\* offending key and no others: brightness must be a number in [0,255],
\* brightness_pct a number in [0,100], color_temp and transition numbers >= 0;
\* a present non-numeric value is an error, an absent key is not. Brightness
\* 300 gives (False, ['brightness must be 0-255, got 300']), brightness 200
\* gives (True, []), and the boundary values 0, 255 and 100 are accepted.
LightTurnOnOneErrorPerOffendingKey ==
    ServiceDataCalled("light", "turn_on") =>
        /\ svc_ret.exc = "none"
        /\ svc_ret.is_valid = (Len(svc_ret.errors) = 0)
        /\ \A key \in LightKeys :
                Cardinality({j \in 1..Len(svc_ret.errors) : svc_ret.errors[j][1] = key})
                    = IF OffendingLightKey(svc_data, key) THEN 1 ELSE 0
        /\ Len(svc_ret.errors) = Cardinality({key \in LightKeys : OffendingLightKey(svc_data, key)})
        /\ svc_data = PyDict(<<KV("brightness", PyInt(300))>>)
                => /\ ~svc_ret.is_valid
                   /\ svc_ret.errors = << <<"brightness", " must be 0-255, got ", "300">> >>
        /\ svc_data = PyDict(<<KV("brightness", PyInt(200))>>)
                => /\ svc_ret.is_valid
                   /\ svc_ret.errors = <<>>
        /\ \A v \in {0, 255} : svc_data = PyDict(<<KV("brightness", PyInt(v))>>) => svc_ret.is_valid
        /\ svc_data = PyDict(<<KV("brightness_pct", PyInt(100))>>) => svc_ret.is_valid

\* C14 witness: brightness 255 was accepted next to a brightness_pct of 101
\* that was reported, alone
LightTurnOnWitness ==
    /\ ServiceDataCalled("light", "turn_on")
    /\ HasKey(svc_data, "brightness") /\ GetKey(svc_data, "brightness") = PyInt(255)
    /\ HasKey(svc_data, "brightness_pct") /\ GetKey(svc_data, "brightness_pct") = PyInt(101)
    /\ Len(svc_ret.errors) = 1
    /\ svc_ret.errors[1][1] = "brightness_pct"

\* the data with only its 'temperature' entry kept
OnlyTemperature(data) ==
    PyDict(SelectSeq(data.dict, LAMBDA entry : entry.k = "temperature"))

\* C15: validate_service_data('climate', 'set_temperature', data) returns
\* exactly one error when 'temperature' is absent, exactly one when it is
\* present but non-numeric or outside [-50, 50], and none when it is a number
\* in [-50, 50], bounds included; no other key of data affects the result.
SetTemperatureChecksOnlyTemperature ==
    ServiceDataCalled("climate", "set_temperature") =>
        /\ svc_ret.exc = "none"
        /\ svc_ret.is_valid = (Len(svc_ret.errors) = 0)
        /\ ~HasKey(svc_data, "temperature") => Len(svc_ret.errors) = 1
        /\ HasKey(svc_data, "temperature") =>
                Len(svc_ret.errors)
                    = IF NumberWithin(GetKey(svc_data, "temperature"), 0 - 50, 50) THEN 0 ELSE 1
        /\ svc_ret = validate_service_data(svc_domain, svc_service, OnlyTemperature(svc_data))

\* C15 witness: the bound -50 was accepted in data that also carries a
\* brightness no light would accept
SetTemperatureWitness ==
    /\ ServiceDataCalled("climate", "set_temperature")
    /\ HasKey(svc_data, "temperature") /\ GetKey(svc_data, "temperature") = PyInt(0 - 50)
    /\ HasKey(svc_data, "brightness") /\ GetKey(svc_data, "brightness") = PyInt(300)
    /\ svc_ret.is_valid
    /\ svc_ret.errors = <<>>

\* C16: for domain 'notify' and every service name, validate_service_data
\* returns an error if and only if the key 'message' is absent from data; the
\* value stored under 'message' is not checked.
NotifyRequiresOnlyMessageKey ==
    (svc_domain = PyStr(Chars("notify")) /\ svc_data.t = "dict" /\ svc_ret # NoResult) =>
        /\ svc_ret.exc = "none"
        /\ svc_ret.is_valid = HasKey(svc_data, "message")
        /\ Len(svc_ret.errors) = IF HasKey(svc_data, "message") THEN 0 ELSE 1

\* C16 witness: notify.turn_on was called with the message None and passed
NotifyWitness ==
    /\ ServiceDataCalled("notify", "turn_on")
    /\ HasKey(svc_data, "message") /\ GetKey(svc_data, "message") = PyNone
    /\ svc_ret.is_valid

\* the (domain, service) pair is one the validator has checks for
ModelledService(domain, service) ==
    \/ domain = PyStr(Chars("light")) /\ service = PyStr(Chars("turn_on"))
    \/ domain = PyStr(Chars("climate")) /\ service = PyStr(Chars("set_temperature"))
    \/ domain = PyStr(Chars("notify"))

\* C17: for every (domain, service) pair other than light.turn_on,
\* climate.set_temperature and the services of domain notify, other services
\* of 'light' and 'climate' included, validate_service_data returns (True, [])
\* for any data mapping.
UnmodelledServicesPass ==
    (svc_ret # NoResult /\ svc_data.t = "dict" /\ ~ModelledService(svc_domain, svc_service)) =>
        /\ svc_ret.exc = "none"
        /\ svc_ret.is_valid
        /\ svc_ret.errors = <<>>

\* C17 witness: light.turn_off passed with a brightness of 300 and no message
UnmodelledWitness ==
    /\ ServiceDataCalled("light", "turn_off")
    /\ HasKey(svc_data, "brightness") /\ GetKey(svc_data, "brightness") = PyInt(300)
    /\ svc_ret.is_valid
    /\ svc_ret.errors = <<>>

----------------------------------------------------------------------------
(* Properties of get_automation_summary, checked under SpecHelpers         *)

\* the value under key is a list with a mapping in it that lacks sub_field
LacksSubField(cfg, key, sub_field) ==
    /\ cfg.t = "dict"
    /\ HasKey(cfg, key)
    /\ GetKey(cfg, key).t = "list"
    /\ \E i \in 1..Len(GetKey(cfg, key).list) :
            /\ GetKey(cfg, key).list[i].t = "dict"
            /\ ~HasKey(GetKey(cfg, key).list[i], sub_field)

\* C18: get_automation_summary is total: it returns a string and never raises
\* for any input, a 'trigger', 'condition' or 'action' value that is not a
\* sequence, list elements that are not mappings and non-string 'service' or
\* 'platform' values included; a missing 'platform' or 'condition' sub-field
\* is rendered as 'unknown'.
SummaryIsTotal ==
    summary # NoSummary =>
        /\ summary.exc = "none"
        /\ (LacksSubField(config, "trigger", "platform")
                \/ LacksSubField(config, "condition", "condition"))
            => ContainsRun(summary.text, Chars("unknown"))

\* the parts of a summary, split at ' | '
Parts(text) == Split(text, " | ")

\* the parts of the summary that open with the label
Section(text, label) ==
    SelectSeq(Parts(text), LAMBDA part : Len(part) > 0 /\ part[1] = label)

SummaryLabels ==
    [id |-> "ID: ", alias |-> "Alias: ", mode |-> "Mode: ",
     trigger |-> "Triggers: ", condition |-> "Conditions: ", action |-> "Actions: "]

\* the value under key is a list of mappings
ListOfMappings(cfg, key) ==
    /\ HasKey(cfg, key)
    /\ GetKey(cfg, key).t = "list"
    /\ \A i \in 1..Len(GetKey(cfg, key).list) : GetKey(cfg, key).list[i].t = "dict"

\* the names a counted part lists between its parentheses: the items after
\* the opening token up to the closing ')', split at ', '
Listed(part) == Split(SubSeq(part, 4, Len(part) - 1), ", ")

\* the part counts the elements and lists the distinct sub-field values, each
\* once, 'unknown' standing for an element without the sub-field
CountsAndDistinct(part, elems, sub_field) ==
    \A names \in {{IF HasKey(elems[i], sub_field) THEN GetKey(elems[i], sub_field).s
                   ELSE Chars("unknown") : i \in 1..Len(elems)}} :
        /\ Len(part) >= 4
        /\ part[2] = ToString(Len(elems))
        /\ part[3] = " ("
        /\ part[Len(part)] = ")"
        /\ IF names = {} THEN Len(part) = 4
           ELSE \A listed \in {Listed(part)} :
                    /\ {listed[j] : j \in 1..Len(listed)} = names
                    /\ Len(listed) = Cardinality(names)

\* the 'service' values of the actions that have the key, in list order
RECURSIVE ServicesInOrder(_, _)
ServicesInOrder(elems, from) ==
    IF from > Len(elems) THEN <<>>
    ELSE (IF HasKey(elems[from], "service") THEN <<GetKey(elems[from], "service").s>> ELSE <<>>)
         \o ServicesInOrder(elems, from + 1)

\* the part counts the actions and lists the services in list order
CountsAndServices(part, elems) ==
    \A services \in {ServicesInOrder(elems, 1)} :
        /\ Len(part) >= 2
        /\ part[2] = ToString(Len(elems))
        /\ IF services = <<>> THEN Len(part) = 2
           ELSE /\ Len(part) >= 4
                /\ part[3] = " (services: "
                /\ part[Len(part)] = ")"
                /\ Listed(part) = services

\* C19: get_automation_summary includes a section for each of id, alias,
\* mode, trigger, condition and action if and only if that key is present in
\* the config; the trigger section carries the number of triggers and the set
\* of distinct platforms, the condition section the number of conditions and
\* the set of distinct condition types, the action section the number of
\* actions and the 'service' values of exactly those actions that have a
\* 'service' key, in list order. Triggers of platforms time and sun with one
\* action light.turn_on yield a string containing 'Triggers: 2' and
\* 'light.turn_on'.
SummarySections ==
    (summary # NoSummary /\ config.t = "dict") =>
        /\ summary.exc = "none"
        /\ \A key \in DOMAIN SummaryLabels :
                Len(Section(summary.text, SummaryLabels[key]))
                    = IF HasKey(config, key) THEN 1 ELSE 0
        /\ ListOfMappings(config, "trigger") =>
                CountsAndDistinct(Section(summary.text, "Triggers: ")[1],
                                  GetKey(config, "trigger").list, "platform")
        /\ ListOfMappings(config, "condition") =>
                CountsAndDistinct(Section(summary.text, "Conditions: ")[1],
                                  GetKey(config, "condition").list, "condition")
        /\ ListOfMappings(config, "action") =>
                CountsAndServices(Section(summary.text, "Actions: ")[1],
                                  GetKey(config, "action").list)
        /\ (/\ HasKey(config, "trigger")
            /\ GetKey(config, "trigger") = PyList(<<T_valid_time, T_sunset>>)
            /\ HasKey(config, "action")
            /\ GetKey(config, "action") = PyList(<<A_valid_service>>))
            => /\ ContainsRun(summary.text, <<"Triggers: ", "2">>)
               /\ ContainsRun(summary.text, Chars("light") \o <<".">> \o Chars("turn_on"))

----------------------------------------------------------------------------
(* Attribution of the errors of the list validators, checked under         *)
(* SpecSections                                                            *)

\* the words an error about an element opens with, before the position
ElementLabels(validator) ==
    CASE validator = "validate_triggers" ->
            {"Trigger ", "Time trigger ", "State trigger ", "Numeric state trigger ", "Sun trigger "}
      [] validator = "validate_conditions" ->
            {"Condition ", "State condition ", "Numeric state condition ", "Time condition "}
      [] validator = "validate_actions" -> {"Action "}

\* the error went through the re-emission of a 'parallel' list
ThroughParallel(e) == Len(e) >= 5 /\ e[3] = " " /\ e[4] = "parallel:" /\ e[5] = " "

\* the error opens with one of the labels and the zero-based position of an element
\* of the list, and, when it came through a 'parallel' list, what follows the
\* tag names a position in that nested list in the same way
RECURSIVE NamesIndex(_, _, _)
NamesIndex(e, seq, labels) ==
    /\ Len(e) >= 2
    /\ e[1] \in labels
    /\ \E i \in 0..(Len(seq.list) - 1) :
        /\ e[2] = ToString(i)
        /\ ThroughParallel(e) =>
            /\ seq.list[i + 1].t = "dict"
            /\ HasKey(seq.list[i + 1], "parallel")
            /\ GetKey(seq.list[i + 1], "parallel").t = "list"
            /\ NamesIndex(SubSeq(e, 6, Len(e)), GetKey(seq.list[i + 1], "parallel"), labels)

\* a list validator has returned the errors of a list
SequenceValidated == sec_ret.exc = "none" /\ sec_arg.t = "list"

\* C20 as stated: every error string that validate_triggers,
\* validate_conditions or validate_actions returns for a sequence input names
\* the zero-based position of the offending element, and for errors surfaced
\* through nested 'parallel' lists one index per nesting level.
EveryErrorNamesIndex ==
    SequenceValidated =>
        \A j \in 1..Len(sec_ret.errors) :
            NamesIndex(sec_ret.errors[j], sec_arg, ElementLabels(under_test))

E_no_action == <<"Automation must have at least one action">>

\* as NamesIndex, but an empty action list, at the top or nested, is answered
\* by the one error that names no position in it
RECURSIVE NamesIndexOrEmptyList(_, _, _)
NamesIndexOrEmptyList(e, seq, labels) ==
    IF labels = {"Action "} /\ Len(seq.list) = 0 THEN e = E_no_action
    ELSE /\ Len(e) >= 2
         /\ e[1] \in labels
         /\ \E i \in 0..(Len(seq.list) - 1) :
             /\ e[2] = ToString(i)
             /\ ThroughParallel(e) =>
                 /\ seq.list[i + 1].t = "dict"
                 /\ HasKey(seq.list[i + 1], "parallel")
                 /\ GetKey(seq.list[i + 1], "parallel").t = "list"
                 /\ NamesIndexOrEmptyList(SubSeq(e, 6, Len(e)),
                                          GetKey(seq.list[i + 1], "parallel"), labels)

\* C20 amended: every error returned for a sequence input names the
\* zero-based position of the offending element, one index per 'parallel'
\* nesting level, except the error 'Automation must have at least one action'
\* of an empty action list, which names no position in the empty list and
\* carries only the indices of the 'parallel' levels around it.
EveryErrorNamesIndexOrEmptyList ==
    SequenceValidated =>
        \A j \in 1..Len(sec_ret.errors) :
            NamesIndexOrEmptyList(sec_ret.errors[j], sec_arg, ElementLabels(under_test))

\* C20 witness: an empty 'parallel' list in the second action was reported
\* behind the index 1 of that action
EmptyParallelWitness ==
    /\ ActionsReturned
    /\ sec_arg = Nest("second", PyList(<<>>))
    /\ sec_ret.errors = << <<"Action ", "1", " ", "parallel:", " ">> \o E_no_action >>

----------------------------------------------------------------------------
(* Per-kind requirements of triggers and conditions, checked under         *)
(* SpecSections                                                            *)

\* the errors returned for the element at zero-based position i
ErrorsAt(i) ==
    SelectSeq(sec_ret.errors,
              LAMBDA e : Len(e) >= 2 /\ e[1] \in ElementLabels(under_test) /\ e[2] = ToString(i))

\* the element is a mapping whose kind, under kind_key, is a string of the table
KnownKind(element, kind_key, table) ==
    /\ element.t = "dict"
    /\ HasKey(element, kind_key)
    /\ GetKey(element, kind_key).t = "str"
    /\ GetKey(element, kind_key).s \in table

Truth(b) == IF b THEN 1 ELSE 0

\* the number of requirements of its platform that the trigger violates
ViolatedTriggerRequirements(trigger) ==
    LET platform == GetKey(trigger, "platform").s
    IN  CASE platform = Chars("time") ->
                Truth(~(HasKey(trigger, "at") /\ IsTimeOfDay(GetKey(trigger, "at"))))
          [] platform = Chars("state") -> Truth(~HasKey(trigger, "entity_id"))
          [] platform = Chars("numeric_state") ->
                Truth(~HasKey(trigger, "entity_id"))
                + Truth(~HasKey(trigger, "above") /\ ~HasKey(trigger, "below"))
          [] platform = Chars("sun") ->
                Truth(~(/\ HasKey(trigger, "event")
                        /\ GetKey(trigger, "event").t = "str"
                        /\ GetKey(trigger, "event").s \in {Chars("sunrise"), Chars("sunset")}))
          [] OTHER -> 0

TriggersReturned ==
    under_test = "validate_triggers" /\ sec_ret.exc = "none" /\ sec_arg.t = "list"

\* C21: for a trigger mapping whose platform is in the fixed platform set,
\* validate_triggers emits no error if and only if: time has 'at' holding a
\* valid time string; state has 'entity_id'; numeric_state has 'entity_id' and
\* at least one of 'above'/'below'; sun has 'event' equal to sunrise or
\* sunset; every other platform has no requirement. Each violated requirement
\* yields its own index-tagged error, so a numeric_state trigger missing both
\* entity_id and above/below yields two errors.
TriggerRequirements ==
    TriggersReturned =>
        \A p \in 1..Len(sec_arg.list) :
            KnownKind(sec_arg.list[p], "platform", VALID_TRIGGER_PLATFORMS) =>
                Len(ErrorsAt(p - 1)) = ViolatedTriggerRequirements(sec_arg.list[p])

\* the condition meets the requirements of its kind
ConditionMeetsRequirements(condition) ==
    LET kind == GetKey(condition, "condition").s
    IN  CASE kind = Chars("state") -> HasKey(condition, "entity_id") /\ HasKey(condition, "state")
          [] kind = Chars("numeric_state") ->
                /\ HasKey(condition, "entity_id")
                /\ HasKey(condition, "above") \/ HasKey(condition, "below")
          [] kind = Chars("time") ->
                /\ HasKey(condition, "after") \/ HasKey(condition, "before")
                /\ \A key \in {"after", "before"} :
                        HasKey(condition, key) => IsTimeOfDay(GetKey(condition, key))
          [] OTHER -> TRUE

ConditionsReturned ==
    under_test = "validate_conditions" /\ sec_ret.exc = "none" /\ sec_arg.t = "list"

\* C22: for a condition mapping whose kind is in the fixed condition set,
\* validate_conditions emits no error if and only if: state has both
\* 'entity_id' and 'state'; numeric_state has 'entity_id' and at least one of
\* 'above'/'below'; time has at least one of 'after'/'before' and each one
\* present is a valid time string; the kinds and, or, not, device, trigger,
\* zone and template yield zero errors whatever else the mapping holds.
ConditionRequirements ==
    ConditionsReturned =>
        \A p \in 1..Len(sec_arg.list) :
            KnownKind(sec_arg.list[p], "condition", VALID_CONDITION_TYPES) =>
                (Len(ErrorsAt(p - 1)) = 0 <=> ConditionMeetsRequirements(sec_arg.list[p]))

\* the kind key and the table of the list validator under test
KindKey == IF under_test = "validate_triggers" THEN "platform" ELSE "condition"

KindTable ==
    IF under_test = "validate_triggers" THEN VALID_TRIGGER_PLATFORMS ELSE VALID_CONDITION_TYPES

\* the list validator under test applied to a list
ValidateList(elems) ==
    IF under_test = "validate_triggers" THEN validate_triggers(PyList(elems))
    ELSE validate_conditions(PyList(elems))

\* C23: in validate_triggers and validate_conditions, an element that is not
\* a mapping, or lacks the kind key ('platform' / 'condition'), or has a kind
\* outside the fixed set, produces exactly one error for its index and
\* receives no kind-specific check; the validator does not raise and goes on
\* to check all later elements of the list.
MalformedElementsSkipped ==
    (/\ under_test \in {"validate_triggers", "validate_conditions"}
     /\ sec_ret # NoCall
     /\ sec_arg.t = "list") =>
        /\ sec_ret.exc = "none"
        /\ \A p \in 1..Len(sec_arg.list) :
                IF KnownKind(sec_arg.list[p], KindKey, KindTable)
                THEN \A alone \in {ValidateList(<<sec_arg.list[p]>>)} :
                        Len(ErrorsAt(p - 1)) = Len(alone.errors)
                ELSE /\ Len(ErrorsAt(p - 1)) = 1
                     /\ ErrorsAt(p - 1)[1][1] \in {"Trigger ", "Condition "}

----------------------------------------------------------------------------
(* The target and delay checks of validate_actions, checked under          *)
(* SpecSections                                                            *)

\* the target errors among the errors returned for element i
TargetErrors(i) ==
    SelectSeq(TopErrors(i),
              LAMBDA e : Len(e) >= 3 /\ e[3] \in {" target must be a dict",
                                                  " target must have entity_id, device_id, or area_id"})

\* the action has a 'target' that is no mapping or names none of the three ids
BadTarget(action) ==
    /\ HasKey(action, "target")
    /\ \/ GetKey(action, "target").t # "dict"
       \/ \A key \in {"entity_id", "device_id", "area_id"} : ~HasKey(GetKey(action, "target"), key)

\* C24: for an action classified as 'service', a 'target' key yields exactly
\* one error when its value is not a mapping or is a mapping with none of
\* entity_id, device_id, area_id, and no error otherwise; the check runs
\* whether or not the service string itself is valid, and a 'target' key on
\* an action of any other kind is never checked.
TargetCheckedOnServiceOnly ==
    (ActionsReturned /\ sec_arg.t = "list") =>
        \A p \in 1..Len(sec_arg.list) :
            \A a \in {sec_arg.list[p]} :
                a.t = "dict" =>
                    /\ Len(TargetErrors(p - 1))
                            = Truth(FirstMarker(a) = "service" /\ BadTarget(a))
                    /\ (FirstMarker(a) = "service" /\ BadTarget(a)) =>
                            Len(TopErrors(p - 1))
                                = 1 + Truth(~IsDomainService(GetKey(a, "service")))

\* C24 witness: the service '.x' with an empty target got a service error
\* and a target error, and the bad target of a delay action got none
TargetWitness ==
    /\ ActionsReturned
    /\ sec_arg = PyList(<<PyDict(<<KV("service", PyStr(<<".", "x">>)), KV("target", PyDict(<<>>))>>),
                          PyDict(<<KV("delay", PyDict(<<KV("seconds", PyInt(5))>>)),
                                   KV("target", PyInt(5))>>)>>)
    /\ Len(sec_ret.errors) = 2
    /\ Len(TargetErrors(0)) = 1

\* C25: for an action classified as 'delay', validate_actions emits exactly
\* one error when the value is neither a mapping nor a string, exactly one
\* 'must have time units' error when it is a mapping with none of hours,
\* minutes, seconds, milliseconds, and no error when it is a mapping with at
\* least one of those keys or any string, the empty string included.
DelayShape ==
    (ActionsReturned /\ sec_arg.t = "list") =>
        \A p \in 1..Len(sec_arg.list) :
            \A a \in {sec_arg.list[p]} :
                (a.t = "dict" /\ FirstMarker(a) = "delay") =>
                    \A delay \in {GetKey(a, "delay")} :
                        TopErrors(p - 1) =
                            IF delay.t \notin {"dict", "str"}
                            THEN << <<"Action ", ToString(p - 1), " delay must be a dict or string">> >>
                            ELSE IF /\ delay.t = "dict"
                                    /\ \A unit \in {"hours", "minutes", "seconds", "milliseconds"} :
                                            ~HasKey(delay, unit)
                            THEN << <<"Action ", ToString(p - 1), " delay must have time units">> >>
                            ELSE <<>>

\* C25 witness: an empty string passed as a delay next to a mapping that has
\* only 'days', which got the one 'must have time units' error
DelayWitness ==
    /\ ActionsReturned
    /\ sec_arg = PyList(<<PyDict(<<KV("delay", PyStr(<<>>))>>),
                          PyDict(<<KV("delay", PyDict(<<KV("days", PyInt(1))>>))>>)>>)
    /\ sec_ret.errors = << <<"Action ", "1", " delay must have time units">> >>

----------------------------------------------------------------------------
(* List emptiness, checked under SpecFrame                                 *)

\* C26: list emptiness is an error only for actions: validate_actions on an
\* empty sequence returns exactly one 'must have at least one action' error,
\* at the top level and for an empty list nested under 'parallel', where it is
\* re-emitted with the parent prefix, while validate_triggers and
\* validate_conditions return no error for an empty sequence, so a config
\* with 'trigger': [] and a valid action list is valid.
EmptinessOnlyForActions ==
    /\ (ActionsReturned /\ sec_arg = PyList(<<>>)) => sec_ret.errors = <<E_no_action>>
    /\ ActionsReturned =>
            \A r \in NestedLists(sec_arg) :
                r.inner = PyList(<<>>) =>
                    /\ Count(sec_ret.errors, Provenance(r.path) \o E_no_action) = 1
                    /\ Len(SelectSeq(sec_ret.errors,
                                     LAMBDA e : /\ Len(e) >= Len(Provenance(r.path))
                                                /\ SubSeq(e, 1, Len(Provenance(r.path)))
                                                        = Provenance(r.path))) = 1
    /\ (/\ under_test \in {"validate_triggers", "validate_conditions"}
        /\ sec_ret # NoCall
        /\ sec_arg = PyList(<<>>)) => sec_ret = Returned(<<>>)
    /\ (/\ under_test = "validate_automation_config"
        /\ result # NoResult
        /\ \E actions \in {PyList(<<A_valid_service>>),
                           PyList(<<A_valid_service, A_variables_and_parallel>>)} :
                config = PyDict(<<KV("trigger", PyList(<<>>)), KV("action", actions)>>))
            => result = [exc |-> "none", is_valid |-> TRUE, errors |-> <<>>]

\* C26 witness: a config with 'trigger': [] and a valid action list was found
\* valid
EmptyTriggerListWitness ==
    /\ under_test = "validate_automation_config"
    /\ config = PyDict(<<KV("trigger", PyList(<<>>)), KV("action", PyList(<<A_valid_service>>))>>)
    /\ result.exc = "none"
    /\ result.is_valid

----------------------------------------------------------------------------
(* The order of the errors of validate_automation_config, checked under    *)
(* Spec                                                                    *)

\* the place of an error in the documented order: 1 to 4 for the top-level
\* fields, 5 for triggers, 6 for conditions, 7 for actions, 0 for anything else
SectionRank(e) ==
    CASE e[1] = "Automation must have either 'trigger' or 'id' field" -> 1
      [] e[1] \in {"ID must be a string, got ", "ID cannot be empty"} -> 2
      [] e[1] = "Alias must be a string, got " -> 3
      [] e[1] = "Invalid mode '" -> 4
      [] e[1] \in ElementLabels("validate_triggers") \cup {"Triggers must be a list, got "} -> 5
      [] e[1] \in ElementLabels("validate_conditions") \cup {"Conditions must be a list, got "} -> 6
      [] e[1] \in {"Action ", "Actions must be a list, got ", "Automation must have 'action' field"}
            \cup {E_no_action[1]} -> 7
      [] OTHER -> 0

\* the errors about elements carry their position as second piece
HasIndex(e) ==
    Len(e) >= 2 /\ e[1] \in UNION {ElementLabels(validator) : validator \in SectionValidators}

\* the position an indexed error names, among the positions 0..last
IndexOf(e, last) == CHOOSE i \in 0..last : ToString(i) = e[2]

\* the errors that came through the 'parallel' list of action i, tag removed
ThroughParallelOf(errors, i) ==
    LET tagged == SelectSeq(errors, LAMBDA e : /\ ThroughParallel(e)
                                               /\ e[1] = "Action "
                                               /\ e[2] = ToString(i))
    IN  [k \in 1..Len(tagged) |-> SubSeq(tagged[k], 6, Len(tagged[k]))]

\* C27: the error list returned by validate_automation_config is ordered:
\* top-level field errors (trigger-or-id, id, alias, mode, in that order) come
\* first, then all trigger errors, then all condition errors, then all action
\* errors (or the missing-action error); within each section errors appear in
\* ascending element index, and the errors of a nested 'parallel' list appear
\* at the position of the parent action, in the nested list's own order.
ErrorsInDocumentOrder ==
    (under_test = "validate_automation_config" /\ result.exc = "none" /\ config.t = "dict") =>
        \A errors \in {result.errors} :
            /\ \A j \in 1..Len(errors) : SectionRank(errors[j]) >= 1
            /\ \A j \in 1..(Len(errors) - 1) :
                    /\ SectionRank(errors[j]) <= SectionRank(errors[j + 1])
                    /\ (/\ SectionRank(errors[j]) = SectionRank(errors[j + 1])
                        /\ HasIndex(errors[j]) /\ HasIndex(errors[j + 1]))
                        => IndexOf(errors[j], Len(errors)) <= IndexOf(errors[j + 1], Len(errors))
            /\ (HasKey(config, "action") /\ GetKey(config, "action").t = "list") =>
                    \A p \in 1..Len(GetKey(config, "action").list) :
                        \A a \in {GetKey(config, "action").list[p]} :
                            (/\ a.t = "dict"
                             /\ FirstMarker(a) = "parallel"
                             /\ GetKey(a, "parallel").t = "list")
                                => ThroughParallelOf(errors, p - 1)
                                        = validate_actions(GetKey(a, "parallel")).errors

\* C27 witness: a bad id, a bad mode, two bad triggers and an action list
\* with a nested 'parallel' list were reported, eight errors in all
OrderedErrorsWitness ==
    /\ under_test = "validate_automation_config"
    /\ result.exc = "none"
    /\ Len(result.errors) = 8
    /\ SectionRank(result.errors[1]) = 2
    /\ SectionRank(result.errors[2]) = 4
    /\ SectionRank(result.errors[3]) = 5
    /\ ThroughParallel(result.errors[6])
    /\ ThroughParallel(result.errors[7])

----------------------------------------------------------------------------
(* The action taxonomy table against the classifier, checked under         *)
(* SpecSections                                                            *)

\* the mapping has exactly one key, and it is kind
OnlyKey(action, kind) == action.t = "dict" /\ Len(action.dict) = 1 /\ action.dict[1].k = kind

\* element i was reported as having no recognized action type
Unrecognized(i) ==
    \E j \in 1..Len(sec_ret.errors) :
        sec_ret.errors[j] = <<"Action ", ToString(i), " has no recognized action type">>

\* C28: the action taxonomy table and the classifier agree: for every kind k
\* in VALID_ACTION_TYPES, an action mapping whose only key is k is recognized
\* by validate_actions and is never reported as 'no recognized action type';
\* conversely every marker key the classifier recognizes is a member of
\* VALID_ACTION_TYPES.
TaxonomyMatchesClassifier ==
    (ActionsReturned /\ sec_arg.t = "list") =>
        \A p \in 1..Len(sec_arg.list) :
            /\ (\E kind \in VALID_ACTION_TYPES : OnlyKey(sec_arg.list[p], kind))
                    => ~Unrecognized(p - 1)
            /\ (/\ sec_arg.list[p].t = "dict"
                /\ Len(sec_arg.list[p].dict) = 1
                /\ ~Unrecognized(p - 1))
                    => sec_arg.list[p].dict[1].k \in VALID_ACTION_TYPES

----------------------------------------------------------------------------
(* Validation before summarizing, checked under SpecPipeline               *)

\* C29: validation makes summarizing safe: for every config on which
\* validate_automation_config returns (True, []), get_automation_summary on
\* the same config returns a string without raising, so the
\* validate-then-summarize pipeline of the callers cannot fail in the summary
\* step.
ValidThenSummarySafe ==
    asserted # NoAssert =>
        \A outcome \in {validate_automation_config(config)} :
            (outcome.exc = "none" /\ outcome.is_valid) =>
                /\ outcome.errors = <<>>
                /\ asserted.exc = "none"
                /\ summary # NoSummary
                /\ summary.exc = "none"

\* C29 witness: a document with two triggers, a condition and an action
\* passed validation and was summarized
PipelineWitness ==
    /\ under_test = "load_and_validate_automation"
    /\ asserted.exc = "none"
    /\ summary.exc = "none"
    /\ ContainsRun(summary.text, <<"Triggers: ", "2">>)
    /\ ContainsRun(summary.text, <<"Conditions: ", "1">>)
    /\ ContainsRun(summary.text, <<"Actions: ", "1">>)

----------------------------------------------------------------------------
(* The counters of the validate_automations script, checked under          *)
(* SpecScript                                                              *)

\* the file loads and is skipped as 'not an automation file'
IsSkipped(file) == file.loads /\ not_an_automation(file.document)

\* the file loads, is validated and is found valid
IsValidated(file) ==
    /\ file.loads
    /\ ~not_an_automation(file.document)
    /\ \A outcome \in {validate_automation_config(file.document)} :
            outcome.exc = "none" /\ outcome.is_valid

\* the files the loop has done that were skipped
SkippedFiles == Cardinality({k \in 1..script.processed : IsSkipped(script.yaml_files[k])})

\* the files the loop has done that were validated and found valid
ValidatedFiles == Cardinality({k \in 1..script.processed : IsValidated(script.yaml_files[k])})

\* main has processed every file and exited
AllProcessed ==
    /\ script.pc = "done"
    /\ Len(script.yaml_files) > 0
    /\ script.processed = Len(script.yaml_files)

\* C30: in the validate_automations script, after main has processed all
\* YAML files, skipped_count equals the number of files that validate_file
\* skipped as 'not an automation file' (non-mapping documents and mappings
\* with neither 'trigger' nor 'id'), valid_count counts only files that were
\* actually validated and found valid, and the exit status is 1 if and only
\* if invalid_count > 0.
CountersMatchOutcomes ==
    AllProcessed =>
        /\ script.skipped_count = SkippedFiles
        /\ script.valid_count = ValidatedFiles
        /\ script.exit_status = "1" <=> script.invalid_count > 0

====
